---------------------------- MODULE Spec2Model ----------------------------
(***************************************************************************)
(* Model of the camera-specification crawler: the vendor extractors        *)
(* (extract_product_details), the per-vendor orchestration loop             *)
(* (BaseCrawler.run, in its two versions src/base_crawler.py and            *)
(* src/crawlers/base_crawler.py), the exporter (prepare_data,               *)
(* create_excel_file, create_pivot_csv, create_json_file,                   *)
(* process_and_save_data) and the thread-pool coordinator of src/main.py.   *)
(*                                                                         *)
(* Text is modelled as a sequence of one-character strings so that          *)
(* str.strip() is computed, not assumed.                                    *)
(***************************************************************************)
EXTENDS Naturals, Integers, Sequences, FiniteSets, TLC

(***************************************************************************)
(* Bounds of the model                                                      *)
(***************************************************************************)
MaxRows == 2
MaxLinks == 2
MaxRecords == 3
NumTasks == 3

(***************************************************************************)
(* Text: str.strip(), truthiness, "; ".join                                 *)
(***************************************************************************)
SP == " "

RECURSIVE LStrip(_)
LStrip(s) == IF s = <<>> THEN s
             ELSE IF Head(s) = SP THEN LStrip(Tail(s)) ELSE s

RECURSIVE RStrip(_)
RStrip(s) == IF s = <<>> THEN s
             ELSE IF s[Len(s)] = SP THEN RStrip(SubSeq(s, 1, Len(s) - 1)) ELSE s

Strip(s) == RStrip(LStrip(s))

\* Python truthiness of a str / list / dict
Truthy(s) == s # <<>>

RECURSIVE Join(_, _)
Join(sep, parts) ==
    IF parts = <<>> THEN <<>>
    ELSE IF Len(parts) = 1 THEN parts[1]
    ELSE parts[1] \o sep \o Join(sep, Tail(parts))

SemiSep == <<";", " ">>

RECURSIVE Concat(_)
Concat(parts) == IF parts = <<>> THEN <<>> ELSE Head(parts) \o Concat(Tail(parts))

\* the literal fallbacks of the extractors ("未知名称", "未知ID")
UnknownName == <<"UNKNOWN_NAME">>
UnknownId == <<"UNKNOWN_ID">>

(***************************************************************************)
(* URLs: a URL is the sequence of its '/'-separated segments, so that       *)
(* url.rstrip('/').split('/')[-1] is computed.                              *)
(***************************************************************************)
RECURSIVE RStripSlash(_)
RStripSlash(segs) ==
    IF Len(segs) > 1 /\ segs[Len(segs)] = <<>>
    THEN RStripSlash(SubSeq(segs, 1, Len(segs) - 1))
    ELSE segs

LastSegment(url) == LET s == RStripSlash(url) IN s[Len(s)]

U1 == << <<"h">>, <<"p", "1">> >>
U2 == << <<"h">>, <<"p", "2">>, <<>> >>

(***************************************************************************)
(* The abstract product page an extractor sees                              *)
(***************************************************************************)
TBlank == <<SP>>
IdTexts == {TBlank, <<SP, "X", SP>>, <<"Y">>}
NameTexts == {TBlank, <<"N", SP>>}

Absent == [found |-> FALSE, text |-> <<>>]
Elem(t) == [found |-> TRUE, text |-> t]
IdElems == {Absent} \cup {Elem(t) : t \in IdTexts}
NameElems == {Absent} \cup {Elem(t) : t \in NameTexts}

RowGood == [cells |-> 2, name |-> <<SP, "a">>, value |-> << <<"v", SP>> >>, raises |-> FALSE]
RowTwoParts == [cells |-> 2, name |-> <<"b">>, value |-> << <<"v">>, <<"w">> >>, raises |-> FALSE]
RowNoValue == [cells |-> 2, name |-> <<"a">>, value |-> << TBlank >>, raises |-> FALSE]
RowNoName == [cells |-> 2, name |-> TBlank, value |-> << <<"v">> >>, raises |-> FALSE]
RowShort == [cells |-> 1, name |-> <<"a">>, value |-> <<>>, raises |-> FALSE]
RowStale == [cells |-> 2, name |-> <<"a">>, value |-> << <<"v">> >>, raises |-> TRUE]
Rows == {RowGood, RowTwoParts, RowNoValue, RowNoName, RowShort, RowStale}

SeqsUpTo(S, n) == UNION {[1..k -> S] : k \in 0..n}

\* where an exception other than TimeoutException / NoSuchElementException
\* strikes: the page load, the read of the id / name elements, the click on
\* the specification tab, or the query of the parameter rows
Faults == {"none", "load", "id", "name", "click", "rows"}

Pages == [fault : Faults, id : IdElems, name : NameElems, rows : SeqsUpTo(Rows, MaxRows)]

(***************************************************************************)
(* Results of extract_product_details                                       *)
(***************************************************************************)
NoneResult == [kind |-> "None"]
RecordResult(d) == [kind |-> "record", data |-> d]
RaiseResult(e) == [kind |-> "raise", exc |-> e]

Param(n, v) == [paramName |-> n, param |-> v]

\* Python dict assignment d[k] = v on an insertion-ordered dict, the dict
\* being the sequence of its <<key, value>> items
DictSet(d, k, v) ==
    IF \E i \in 1..Len(d) : d[i][1] = k
    THEN [i \in 1..Len(d) |-> IF d[i][1] = k THEN <<k, v>> ELSE d[i]]
    ELSE Append(d, <<k, v>>)

DigitChar == <<"0", "1", "2", "3", "4", "5", "6", "7", "8", "9">>

RECURSIVE Decimal(_)
Decimal(n) == IF n < 10 THEN <<DigitChar[n + 1]>>
              ELSE Decimal(n \div 10) \o <<DigitChar[(n % 10) + 1]>>

\* WebElement.text of a cell, and the first text node of a parsel cell
CellText(row) == Concat(row.value)
FirstText(row) == IF row.value = <<>> THEN <<>> ELSE row.value[1]

Keep(filter, n, v) ==
    CASE filter = "both" -> Truthy(n) /\ Truthy(v)
      [] filter = "name" -> Truthy(n)
      [] OTHER -> TRUE

\* the "for row in rows: cells = row.find_elements(td) ..." loop of the
\* Selenium table extractors; rowTry says whether the loop body has its own
\* try/except (the row is skipped) or not (the loop ends with the rows so far)
RECURSIVE SeleniumTableParams(_, _, _)
SeleniumTableParams(rows, filter, rowTry) ==
    IF rows = <<>> THEN <<>>
    ELSE LET row == Head(rows)
             n == Strip(row.name)
             v == Strip(CellText(row))
         IN IF row.raises
            THEN (IF rowTry THEN SeleniumTableParams(Tail(rows), filter, rowTry) ELSE <<>>)
            ELSE (IF row.cells >= 2 /\ Keep(filter, n, v) THEN <<Param(n, v)>> ELSE <<>>)
                 \o SeleniumTableParams(Tail(rows), filter, rowTry)

RowsRaise(rows) == \E i \in 1..Len(rows) : rows[i].raises

\* [t.strip() for t in parts if t.strip()]
RECURSIVE StrippedParts(_)
StrippedParts(parts) ==
    IF parts = <<>> THEN <<>>
    ELSE (IF Truthy(Strip(Head(parts))) THEN <<Strip(Head(parts))>> ELSE <<>>)
         \o StrippedParts(Tail(parts))

(***************************************************************************)
(* src/crawlers/acti_crawler.py                                             *)
(***************************************************************************)
ActiCrawler_extract_product_details(url, page) ==
    IF page.fault = "load" THEN NoneResult
    ELSE IF page.fault = "id" \/ ~page.id.found THEN NoneResult
    ELSE IF page.fault = "name" THEN NoneResult
    ELSE LET product_id == Strip(page.id.text)
             product_name == IF page.name.found THEN Strip(page.name.text)
                             ELSE UnknownName
             params == IF page.fault = "rows" THEN <<>>
                       ELSE SeleniumTableParams(page.rows, "both", TRUE)
         IN RecordResult([product_id |-> product_id,
                          product_name |-> product_name,
                          params |-> params])

(***************************************************************************)
(* src/acti_crawler.py                                                      *)
(***************************************************************************)
Root_ActiCrawler_extract_product_details(url, page) ==
    IF page.fault = "load" THEN NoneResult
    ELSE IF page.fault = "id" \/ ~page.id.found THEN NoneResult
    ELSE IF page.fault = "name" \/ ~page.name.found THEN NoneResult
    ELSE LET product_id == Strip(page.id.text)
             product_name == Strip(page.name.text)
             params == IF page.fault = "rows" THEN <<>>
                       ELSE SeleniumTableParams(page.rows, "none", TRUE)
         IN RecordResult([product_id |-> product_id,
                          product_name |-> product_name,
                          params |-> params])

(***************************************************************************)
(* src/crawlers/everfocus_crawler.py and src/everfocus_crawler.py           *)
(***************************************************************************)
EverFocusCrawler_extract_product_details(url, page) ==
    IF page.fault = "load" THEN NoneResult
    ELSE IF page.fault = "id" THEN NoneResult
    ELSE IF page.fault = "name" THEN NoneResult
    ELSE LET product_id == IF page.id.found /\ Truthy(Strip(page.id.text))
                           THEN Strip(page.id.text) ELSE UnknownId
             name == IF page.name.found /\ Truthy(Strip(page.name.text))
                     THEN Strip(page.name.text) ELSE UnknownName
             params == IF page.fault = "rows" THEN <<>>
                       ELSE SeleniumTableParams(page.rows, "both", FALSE)
         IN RecordResult([product_id |-> product_id,
                          product_name |-> name,
                          params |-> params])

Root_EverFocusCrawler_extract_product_details(url, page) ==
    IF page.fault = "load" THEN NoneResult
    ELSE IF page.fault = "id" THEN NoneResult
    ELSE IF page.fault = "name" THEN NoneResult
    ELSE LET product_id == IF page.id.found /\ Truthy(Strip(page.id.text))
                           THEN Strip(page.id.text) ELSE UnknownId
             name == IF page.name.found /\ Truthy(Strip(page.name.text))
                     THEN Strip(page.name.text) ELSE UnknownName
             params == IF page.fault = "rows" THEN <<>>
                       ELSE SeleniumTableParams(page.rows, "both", FALSE)
         IN RecordResult([product_id |-> product_id,
                          product_name |-> name,
                          params |-> params])

(***************************************************************************)
(* src/crawlers/hisharp_crawler.py                                          *)
(***************************************************************************)
HisharpCrawler_extract_product_details(url, page) ==
    IF page.fault = "load" THEN NoneResult
    ELSE IF page.fault = "id" \/ ~page.id.found THEN NoneResult
    ELSE IF ~Truthy(Strip(page.id.text)) THEN NoneResult
    ELSE IF page.fault = "name" THEN NoneResult
    ELSE IF page.fault = "click" THEN NoneResult
    ELSE LET product_id == Strip(page.id.text)
             product_name == IF page.name.found /\ Truthy(Strip(page.name.text))
                             THEN Strip(page.name.text) ELSE UnknownName
             params == IF page.fault = "rows" THEN <<>>
                       ELSE SeleniumTableParams(page.rows, "name", FALSE)
         IN RecordResult([product_id |-> product_id,
                          product_name |-> product_name,
                          params |-> params])

(***************************************************************************)
(* src/crawlers/cpplusworld_crawler.py (requests + parsel)                  *)
(***************************************************************************)
RECURSIVE CPlusWorldParams(_)
CPlusWorldParams(rows) ==
    IF rows = <<>> THEN <<>>
    ELSE LET row == Head(rows)
             n == Strip(row.name)
             v == Strip(FirstText(row))
         IN (IF row.cells >= 2 /\ Truthy(row.name) /\ Truthy(n) /\ Truthy(v)
             THEN <<Param(n, v)>> ELSE <<>>)
            \o CPlusWorldParams(Tail(rows))

CPlusWorldCrawler_extract_product_details(url, page) ==
    IF page.fault = "load" THEN NoneResult
    ELSE IF page.fault = "id" THEN NoneResult
    ELSE IF ~page.id.found \/ ~Truthy(page.id.text) THEN NoneResult
    ELSE IF page.fault = "name" THEN NoneResult
    ELSE IF page.fault = "rows" \/ RowsRaise(page.rows) THEN NoneResult
    ELSE LET product_id == Strip(page.id.text)
             product_name == IF page.name.found /\ Truthy(page.name.text)
                             THEN Strip(page.name.text) ELSE UnknownName
         IN RecordResult([product_id |-> product_id,
                          product_name |-> product_name,
                          params |-> CPlusWorldParams(page.rows)])

(***************************************************************************)
(* src/crawlers/geovision_crawler.py (requests + parsel)                    *)
(***************************************************************************)
\* 'div.proDetailHtml > ul > li::text' .getall(): every text node of every li
RECURSIVE TextNodes(_)
TextNodes(rows) == IF rows = <<>> THEN <<>> ELSE Head(rows).value \o TextNodes(Tail(rows))

ParamIndexName(i) == <<"#">> \o Decimal(i)

RECURSIVE GeoVisionParams(_, _)
GeoVisionParams(items, i) ==
    IF i > Len(items) THEN <<>>
    ELSE (IF Truthy(Strip(items[i])) THEN <<Param(ParamIndexName(i), Strip(items[i]))>>
          ELSE <<>>)
         \o GeoVisionParams(items, i + 1)

GeoVisionCrawler_extract_product_details(url, page) ==
    IF page.fault = "load" THEN NoneResult
    ELSE IF page.fault = "id" THEN NoneResult
    ELSE LET product_id == IF page.id.found THEN Strip(page.id.text) ELSE <<>>
         IN IF ~Truthy(product_id) THEN NoneResult
            ELSE IF page.fault = "name" THEN NoneResult
            ELSE IF page.fault = "rows" \/ RowsRaise(page.rows) THEN NoneResult
            ELSE LET raw_name == IF page.name.found THEN Strip(page.name.text) ELSE <<>>
                     product_name == IF Truthy(raw_name) THEN raw_name ELSE UnknownName
                 IN RecordResult([product_id |-> product_id,
                                  product_name |-> product_name,
                                  params |-> GeoVisionParams(TextNodes(page.rows), 1)])

(***************************************************************************)
(* src/crawlers/vivotek_crawler.py and src/vivotek_crawler.py               *)
(***************************************************************************)
RECURSIVE VivotekParams(_)
VivotekParams(groups) ==
    IF groups = <<>> THEN <<>>
    ELSE LET g == Head(groups)
             param_name == Strip(g.name)
             param_value == Join(SemiSep, StrippedParts(g.value))
         IN (IF g.cells >= 2 /\ Truthy(param_name) /\ Truthy(param_value)
             THEN <<Param(param_name, param_value)>> ELSE <<>>)
            \o VivotekParams(Tail(groups))

VivotekCrawler_extract_product_details(url, page) ==
    IF page.fault = "load" THEN NoneResult
    ELSE IF page.fault = "id" \/ ~page.id.found THEN NoneResult
    ELSE IF ~Truthy(Strip(page.id.text)) THEN NoneResult
    ELSE IF page.fault = "name" \/ ~page.name.found THEN NoneResult
    ELSE IF ~Truthy(Strip(page.name.text)) THEN NoneResult
    ELSE IF page.fault = "rows" \/ RowsRaise(page.rows) THEN NoneResult
    ELSE LET params == VivotekParams(page.rows)
         IN IF ~Truthy(params) THEN NoneResult
            ELSE RecordResult([product_id |-> Strip(page.id.text),
                               product_name |-> Strip(page.name.text),
                               params |-> params])

\* specs[param_name] = param_value over the groups, in order
RECURSIVE Root_VivotekSpecs(_, _)
Root_VivotekSpecs(groups, specs) ==
    IF groups = <<>> THEN specs
    ELSE LET g == Head(groups)
             param_name == Strip(g.name)
             param_value == Join(SemiSep, StrippedParts(g.value))
         IN Root_VivotekSpecs(Tail(groups),
                IF g.cells >= 2 /\ Truthy(param_name) /\ Truthy(param_value)
                THEN DictSet(specs, param_name, param_value) ELSE specs)

Root_VivotekCrawler_extract_product_details(url, page) ==
    IF page.fault = "load" THEN NoneResult
    ELSE IF page.fault = "id" \/ ~page.id.found THEN NoneResult
    ELSE IF ~Truthy(Strip(page.id.text)) THEN NoneResult
    ELSE IF page.fault = "name" \/ ~page.name.found THEN NoneResult
    ELSE IF ~Truthy(Strip(page.name.text)) THEN NoneResult
    ELSE IF page.fault = "rows" \/ RowsRaise(page.rows) THEN NoneResult
    ELSE LET specs == Root_VivotekSpecs(page.rows, <<>>)
         IN IF ~Truthy(specs) THEN NoneResult
            ELSE RecordResult([id |-> Strip(page.id.text),
                               name |-> Strip(page.name.text),
                               url |-> url,
                               specifications |-> specs])

(***************************************************************************)
(* src/crawlers/lilin_crawler.py (requests + parsel)                        *)
(***************************************************************************)
RECURSIVE LilinParams(_)
LilinParams(rows) ==
    IF rows = <<>> THEN <<>>
    ELSE LET row == Head(rows)
             n == Strip(row.name)
             v == Strip(FirstText(row))
         IN (IF row.cells >= 2 /\ Truthy(n) THEN <<Param(n, v)>> ELSE <<>>)
            \o LilinParams(Tail(rows))

LilinCrawler_extract_product_details(url, page) ==
    IF page.fault = "load" THEN NoneResult
    ELSE IF page.fault = "name" THEN NoneResult
    ELSE IF page.fault = "rows" \/ RowsRaise(page.rows) THEN NoneResult
    ELSE LET product_id == LastSegment(url)
             raw_name == IF page.name.found THEN Strip(page.name.text) ELSE <<>>
             product_name == IF Truthy(raw_name) THEN raw_name ELSE UnknownName
         IN RecordResult([product_id |-> product_id,
                          product_name |-> product_name,
                          params |-> LilinParams(page.rows)])

(***************************************************************************)
(* src/crawlers/aver_crawler.py                                             *)
(***************************************************************************)
RECURSIVE AVerParams(_)
AVerParams(dls) ==
    IF dls = <<>> THEN <<>>
    ELSE LET dl == Head(dls)
             param_name == Strip(dl.name)
             param_values == StrippedParts(dl.value)
         IN (IF ~dl.raises /\ dl.cells >= 1 /\ Truthy(param_name) /\ Truthy(param_values)
             THEN <<Param(param_name, Join(SemiSep, param_values))>> ELSE <<>>)
            \o AVerParams(Tail(dls))

AVerCrawler_extract_product_details(url, page) ==
    IF page.fault = "load" THEN NoneResult
    ELSE IF page.fault = "id" \/ ~page.id.found THEN NoneResult
    ELSE IF ~Truthy(Strip(page.id.text)) THEN NoneResult
    ELSE IF page.fault = "name" THEN NoneResult
    ELSE LET product_name == IF page.name.found /\ Truthy(Strip(page.name.text))
                             THEN Strip(page.name.text) ELSE UnknownName
             params == IF page.fault = "rows" THEN <<>> ELSE AVerParams(page.rows)
         IN RecordResult([product_id |-> Strip(page.id.text),
                          product_name |-> product_name,
                          params |-> params])

(***************************************************************************)
(* src/dahua_crawler.py, which imports src/base_crawler.py                  *)
(***************************************************************************)
\* whether BaseCrawler.__init__ sets self.logger: src/crawlers/base_crawler.py
\* does (line 30), src/base_crawler.py does not
HasLogger(base) == base = "pkg"

\* parameter_items[1:]
SkipFirst(items) == IF items = <<>> THEN <<>> ELSE Tail(items)

\* the result of the method when every self.logger call succeeds
DahuaLogged_extract_product_details(url, page) ==
    IF page.fault = "load" THEN NoneResult
    ELSE IF page.fault = "id" \/ ~page.id.found THEN NoneResult
    ELSE IF page.fault = "name" \/ ~page.name.found THEN NoneResult
    ELSE IF ~Truthy(Strip(page.id.text)) \/ ~Truthy(Strip(page.name.text)) THEN NoneResult
    ELSE IF page.fault = "click" THEN NoneResult
    ELSE IF page.fault = "rows" THEN NoneResult
    ELSE LET params == SeleniumTableParams(SkipFirst(page.rows), "both", TRUE)
         IN IF ~Truthy(params) THEN NoneResult
            ELSE RecordResult([product_id |-> Strip(page.id.text),
                               product_name |-> Strip(page.name.text),
                               params |-> params])

\* Every path of the method reaches a self.logger call before it returns
\* (lines 113, 116, 167, 171, 181) and the outermost handler logs too (185):
\* without a logger attribute the AttributeError raised by the call is raised
\* again inside that handler and leaves the method.
Root_DahuaCrawler_extract_product_details(url, page) ==
    IF HasLogger("root") THEN DahuaLogged_extract_product_details(url, page)
    ELSE RaiseResult("AttributeError")

(***************************************************************************)
(* src/hikvision_crawler.py (a class of its own, no BaseCrawler)            *)
(***************************************************************************)
RECURSIVE HikvisionSpecs(_, _)
HikvisionSpecs(lis, specs) ==
    IF lis = <<>> THEN specs
    ELSE LET li == Head(lis)
         IN HikvisionSpecs(Tail(lis),
                IF ~li.raises /\ li.cells >= 2
                THEN DictSet(specs, Strip(li.name), Strip(CellText(li))) ELSE specs)

HikvisionCrawler_extract_product_details(url, page) ==
    IF page.fault = "load" THEN NoneResult
    ELSE IF page.fault = "name" \/ ~page.name.found THEN NoneResult
    ELSE IF page.fault = "id" \/ ~page.id.found THEN NoneResult
    ELSE IF page.fault = "rows" THEN NoneResult
    ELSE RecordResult([name |-> Strip(page.name.text),
                       id |-> Strip(page.id.text),
                       url |-> url,
                       specifications |-> HikvisionSpecs(SkipFirst(page.rows), <<>>)])

(***************************************************************************)
(* The crawler classes of the repository                                    *)
(***************************************************************************)
PkgVendors == {"crawlers.ActiCrawler", "crawlers.EverFocusCrawler",
               "crawlers.HisharpCrawler", "crawlers.CPlusWorldCrawler",
               "crawlers.GeoVisionCrawler", "crawlers.VivotekCrawler",
               "crawlers.LilinCrawler", "crawlers.AVerCrawler"}
RootVendors == {"ActiCrawler", "EverFocusCrawler", "VivotekCrawler", "DahuaCrawler"}
Vendors == PkgVendors \cup RootVendors \cup {"HikvisionCrawler"}

\* the BaseCrawler a class imports: "from .base_crawler import BaseCrawler"
\* (src/crawlers/) or "from base_crawler import BaseCrawler" (src/)
BaseOf(vendor) == IF vendor \in PkgVendors THEN "pkg"
                  ELSE IF vendor \in RootVendors THEN "root" ELSE "none"

extract_product_details(vendor, url, page) ==
    CASE vendor = "crawlers.ActiCrawler" -> ActiCrawler_extract_product_details(url, page)
      [] vendor = "crawlers.EverFocusCrawler" -> EverFocusCrawler_extract_product_details(url, page)
      [] vendor = "crawlers.HisharpCrawler" -> HisharpCrawler_extract_product_details(url, page)
      [] vendor = "crawlers.CPlusWorldCrawler" -> CPlusWorldCrawler_extract_product_details(url, page)
      [] vendor = "crawlers.GeoVisionCrawler" -> GeoVisionCrawler_extract_product_details(url, page)
      [] vendor = "crawlers.VivotekCrawler" -> VivotekCrawler_extract_product_details(url, page)
      [] vendor = "crawlers.LilinCrawler" -> LilinCrawler_extract_product_details(url, page)
      [] vendor = "crawlers.AVerCrawler" -> AVerCrawler_extract_product_details(url, page)
      [] vendor = "ActiCrawler" -> Root_ActiCrawler_extract_product_details(url, page)
      [] vendor = "EverFocusCrawler" -> Root_EverFocusCrawler_extract_product_details(url, page)
      [] vendor = "VivotekCrawler" -> Root_VivotekCrawler_extract_product_details(url, page)
      [] vendor = "DahuaCrawler" -> Root_DahuaCrawler_extract_product_details(url, page)
      [] vendor = "HikvisionCrawler" -> HikvisionCrawler_extract_product_details(url, page)

\* the product id of a returned record, whichever of the two record layouts
IsRecord(r) == r.kind = "record"
RecordId(d) == IF "product_id" \in DOMAIN d THEN d.product_id ELSE d.id
RecordName(d) == IF "product_name" \in DOMAIN d THEN d.product_name ELSE d.name

(***************************************************************************)
(* Ordering of text (Python compares str by code point), used by the        *)
(* sorted group keys of pandas groupby / pivot_table                        *)
(***************************************************************************)
UnknownProduct == <<"UNKNOWN_PRODUCT">>

Alphabet == <<" ", "#", "0", "1", "2", "3", "4", "5", "6", "7", "8", "9", ";",
              "M", "N", "X", "Y", "a", "b", "h", "p", "v", "w",
              "UNKNOWN_ID", "UNKNOWN_PRODUCT", "UNKNOWN_NAME">>

CharRank(c) == CHOOSE i \in 1..Len(Alphabet) : Alphabet[i] = c

RECURSIVE TextLess(_, _)
TextLess(a, b) ==
    IF a = <<>> THEN b # <<>>
    ELSE IF b = <<>> THEN FALSE
    ELSE IF Head(a) = Head(b) THEN TextLess(Tail(a), Tail(b))
    ELSE CharRank(Head(a)) < CharRank(Head(b))

RECURSIVE SortedTexts(_)
SortedTexts(S) ==
    IF S = {} THEN <<>>
    ELSE LET m == CHOOSE x \in S : \A y \in S \ {x} : TextLess(x, y)
         IN <<m>> \o SortedTexts(S \ {m})

PairLess(p, q) == TextLess(p[1], q[1]) \/ (p[1] = q[1] /\ TextLess(p[2], q[2]))

RECURSIVE SortedPairs(_)
SortedPairs(S) ==
    IF S = {} THEN <<>>
    ELSE LET m == CHOOSE x \in S : \A y \in S \ {x} : PairLess(x, y)
         IN <<m>> \o SortedPairs(S \ {m})

Range(f) == {f[i] : i \in DOMAIN f}

\* Series.unique(): the distinct values in order of first appearance
RECURSIVE UniqueInOrder(_)
UniqueInOrder(seq) ==
    IF seq = <<>> THEN <<>>
    ELSE LET init == UniqueInOrder(SubSeq(seq, 1, Len(seq) - 1))
             last == seq[Len(seq)]
         IN IF last \in Range(init) THEN init ELSE Append(init, last)

(***************************************************************************)
(* src/base_crawler.py: the exporter                                        *)
(***************************************************************************)
\* product['id'], product['name'], product['url'], product['specifications']
HasSpecLayout(product) == {"id", "name", "url", "specifications"} \subseteq DOMAIN product

\* a flattening that keeps a place for a record without parameters: one row
\* with an empty parameter
SpecsRowsPadded(product) ==
    IF product.specifications = <<>>
    THEN <<[product_id |-> product.id, product_name |-> product.name,
            param_name |-> <<>>, param_value |-> <<>>]>>
    ELSE [j \in 1..Len(product.specifications) |->
             [product_id |-> product.id,
              product_name |-> product.name,
              param_name |-> product.specifications[j][1],
              param_value |-> product.specifications[j][2]]]

SpecsRows(product) ==
    [j \in 1..Len(product.specifications) |->
        [product_id |-> product.id,
         product_name |-> product.name,
         param_name |-> product.specifications[j][1],
         param_value |-> product.specifications[j][2]]]

RECURSIVE FlattenSpecs(_)
FlattenSpecs(products) ==
    IF products = <<>> THEN <<>>
    ELSE SpecsRows(Head(products)) \o FlattenSpecs(Tail(products))

\* ok = FALSE is the (None, None) of the except branch
prepare_data(all_products) ==
    IF \E i \in 1..Len(all_products) : ~HasSpecLayout(all_products[i])
    THEN [ok |-> FALSE, products_df |-> <<>>, specs_df |-> <<>>]
    ELSE [ok |-> TRUE,
          products_df |-> [i \in 1..Len(all_products) |->
                              [id |-> all_products[i].id,
                               name |-> all_products[i].name,
                               url |-> all_products[i].url]],
          specs_df |-> FlattenSpecs(all_products)]

Column(df, col) == [i \in 1..Len(df) |-> df[i][col]]

\* dict(zip(products_df['id'], products_df['name'])): the last name of an id
product_name_map(products_df) ==
    [pid \in Range(Column(products_df, "id")) |->
        LET last == CHOOSE i \in 1..Len(products_df) :
                        /\ products_df[i].id = pid
                        /\ \A j \in (i + 1)..Len(products_df) : products_df[j].id # pid
        IN products_df[last].name]

MapGet(map, key, default) == IF key \in DOMAIN map THEN map[key] ELSE default

GroupRows(df, col, key) == SelectSeq(df, LAMBDA r : r[col] = key)

\* a worksheet whose name cell is copied from each flattened row
RECURSIVE ExcelBlocksRowName(_, _, _, _)
ExcelBlocksRowName(product_ids, specs_df, name_map, row_index) ==
    IF product_ids = <<>> THEN [rows |-> <<>>, merges |-> {}]
    ELSE LET product_id == Head(product_ids)
             product_rows == GroupRows(specs_df, "product_id", product_id)
             end_index == row_index + Len(product_rows)
             block == [k \in 1..Len(product_rows) |->
                          <<product_id, product_rows[k].product_name,
                            product_rows[k].param_name, product_rows[k].param_value>>]
             rest == ExcelBlocksRowName(Tail(product_ids), specs_df, name_map, end_index)
         IN [rows |-> block \o rest.rows,
             merges |-> (IF row_index # end_index - 1
                         THEN {<<"A", row_index, end_index - 1>>,
                               <<"B", row_index, end_index - 1>>}
                         ELSE {}) \cup rest.merges]

\* a worksheet written row by row in the order of the flattened table, the
\* merge of an id reaching from its first to its last row
ExcelRowsInTableOrder(product_ids, specs_df, name_map, row_index) ==
    LET at(pid) == {k \in 1..Len(specs_df) : specs_df[k].product_id = pid}
        top(pid) == CHOOSE k \in at(pid) : \A j \in at(pid) : k <= j
        bottom(pid) == CHOOSE k \in at(pid) : \A j \in at(pid) : k >= j
    IN [rows |-> [k \in 1..Len(specs_df) |->
                     <<specs_df[k].product_id,
                       MapGet(name_map, specs_df[k].product_id, UnknownProduct),
                       specs_df[k].param_name, specs_df[k].param_value>>],
        merges |-> UNION {IF top(pid) # bottom(pid)
                          THEN {<<"A", top(pid) + row_index - 1, bottom(pid) + row_index - 1>>,
                                <<"B", top(pid) + row_index - 1, bottom(pid) + row_index - 1>>}
                          ELSE {} : pid \in Range(product_ids)}]

\* the worksheet: the data rows (row 1 is the header) and the merged ranges
RECURSIVE ExcelBlocks(_, _, _, _)
ExcelBlocks(product_ids, specs_df, name_map, row_index) ==
    IF product_ids = <<>> THEN [rows |-> <<>>, merges |-> {}]
    ELSE LET product_id == Head(product_ids)
             product_rows == GroupRows(specs_df, "product_id", product_id)
             product_name == MapGet(name_map, product_id, UnknownProduct)
             start_row == row_index
             end_index == row_index + Len(product_rows)
             block == [k \in 1..Len(product_rows) |->
                          <<product_id, product_name,
                            product_rows[k].param_name, product_rows[k].param_value>>]
             rest == ExcelBlocks(Tail(product_ids), specs_df, name_map, end_index)
         IN [rows |-> block \o rest.rows,
             merges |-> (IF start_row # end_index - 1
                         THEN {<<"A", start_row, end_index - 1>>,
                               <<"B", start_row, end_index - 1>>}
                         ELSE {}) \cup rest.merges]

FirstDataRow == 2

create_excel_file(specs_df, name_map) ==
    ExcelBlocks(UniqueInOrder(Column(specs_df, "product_id")), specs_df, name_map,
                FirstDataRow)

\* pivot_table(index=[product_id, product_name], columns=param_name,
\*             values=param_value, aggfunc='first').reset_index()
PivotCell(specs_df, key, col) ==
    LET hits == SelectSeq(specs_df, LAMBDA r : /\ r.product_id = key[1]
                                               /\ r.product_name = key[2]
                                               /\ r.param_name = col)
    IN IF hits = <<>> THEN [present |-> FALSE, value |-> <<>>]
       ELSE [present |-> TRUE, value |-> hits[1].param_value]

create_pivot_csv(specs_df) ==
    LET keys == SortedPairs({<<specs_df[i].product_id, specs_df[i].product_name>> :
                                i \in 1..Len(specs_df)})
        columns == SortedTexts(Range(Column(specs_df, "param_name")))
    IN [columns |-> columns,
        rows |-> [k \in 1..Len(keys) |->
                     [product_id |-> keys[k][1],
                      product_name |-> keys[k][2],
                      cells |-> [c \in 1..Len(columns) |->
                                    PivotCell(specs_df, keys[k], columns[c])]]]]

\* a regrouping that keeps only the first parameter of each group
create_json_file_first_param(specs_df) ==
    LET pids == SortedTexts(Range(Column(specs_df, "product_id")))
    IN [g \in 1..Len(pids) |->
           LET group == GroupRows(specs_df, "product_id", pids[g])
           IN [product_id |-> pids[g],
               product_name |-> group[1].product_name,
               params |-> <<Param(group[1].param_name, group[1].param_value)>>]]

\* for pid, group in specs_df.groupby('product_id'): groups in sorted key order
create_json_file(specs_df) ==
    LET pids == SortedTexts(Range(Column(specs_df, "product_id")))
    IN [g \in 1..Len(pids) |->
           LET group == GroupRows(specs_df, "product_id", pids[g])
           IN [product_id |-> pids[g],
               product_name |-> group[1].product_name,
               params |-> [k \in 1..Len(group) |->
                              Param(group[k].param_name, group[k].param_value)]]]

\* json_to_dataframe of src/convert.py: one row per object of the JSON list;
\* param_dict[param_name] = param_value, where a later parameter of the same
\* name replaces the value and a parameter with an empty name is left out
RECURSIVE param_dict(_)
param_dict(params) ==
    IF params = <<>> THEN <<>>
    ELSE LET n == Len(params)
             d == param_dict(SubSeq(params, 1, n - 1))
         IN IF params[n].paramName # <<>>
            THEN DictSet(d, params[n].paramName, params[n].param)
            ELSE d

json_to_dataframe(data) ==
    [k \in 1..Len(data) |->
        [product_id |-> data[k].product_id,
         product_name |-> data[k].product_name,
         cells |-> param_dict(data[k].params)]]

NotWritten == [written |-> FALSE, content |-> <<>>]
Written(c) == [written |-> TRUE, content |-> c]

NoFiles == [excel |-> NotWritten, pivot |-> NotWritten, json |-> NotWritten,
            skipped |-> NotWritten]

\* process_and_save_data of src/base_crawler.py.  io_fault names the artifact
\* whose write raises an I/O error.  An empty specs_df has no columns:
\* specs_df['product_id'] raises KeyError in the first artifact already.
\* The calls are not guarded, so the first exception ends the method.
Root_process_and_save_data(all_products, io_fault) ==
    LET prep == prepare_data(all_products)
        specs_df == prep.specs_df
        bad(a) == specs_df = <<>> \/ io_fault = a
        exc(a) == IF specs_df = <<>> THEN "KeyError" ELSE "OSError"
    IN IF ~prep.ok THEN [files |-> NoFiles, attempted |-> {}, raised |-> "none"]
       ELSE IF bad("excel")
       THEN [files |-> NoFiles, attempted |-> {"excel"}, raised |-> exc("excel")]
       ELSE LET f1 == [NoFiles EXCEPT !.excel =
                          Written(create_excel_file(specs_df, product_name_map(prep.products_df)))]
            IN IF bad("pivot")
               THEN [files |-> f1, attempted |-> {"excel", "pivot"}, raised |-> exc("pivot")]
               ELSE LET f2 == [f1 EXCEPT !.pivot = Written(create_pivot_csv(specs_df))]
                    IN IF bad("json")
                       THEN [files |-> f2, attempted |-> {"excel", "pivot", "json"},
                             raised |-> exc("json")]
                       ELSE [files |-> [f2 EXCEPT !.json = Written(create_json_file(specs_df))],
                             attempted |-> {"excel", "pivot", "json"},
                             raised |-> "none"]

(***************************************************************************)
(* src/crawlers/base_crawler.py: process_and_save_data(products)            *)
(***************************************************************************)
\* json.dump(products): the list as collected; an I/O error is caught
Pkg_process_and_save_data(products, io_fault) ==
    IF products = <<>> THEN [files |-> NoFiles, attempted |-> {}, raised |-> "none"]
    ELSE IF io_fault = "json"
    THEN [files |-> NoFiles, attempted |-> {"json"}, raised |-> "none"]
    ELSE [files |-> [NoFiles EXCEPT !.json = Written(products)],
          attempted |-> {"json"}, raised |-> "none"]

(***************************************************************************)
(* Link discovery and pagination.  A URL is the sequence of its pieces, the  *)
(* scheme with its "://" being one piece.                                    *)
(***************************************************************************)
MaxPages == 3
MaxAnchors == 2

HttpSchemes == {"http://", "https://"}

\* href.startswith(('http://', 'https://'))
StartsWithHttp(href) == href # <<>> /\ Head(href) \in HttpSchemes

\* scheme and host of an absolute URL
Origin(url) == SubSeq(url, 1, 2)

\* the URL up to and including the last "/" of its path
RECURSIVE DirOf(_)
DirOf(url) ==
    IF Len(url) <= 2 THEN url \o <<"/">>
    ELSE IF url[Len(url)] = "/" THEN url
    ELSE DirOf(SubSeq(url, 1, Len(url) - 1))

\* urllib.parse.urljoin(base, href) for an http(s) base
urljoin(base, href) ==
    IF href = <<>> THEN base
    ELSE IF StartsWithHttp(href) THEN href
    ELSE IF Head(href) = "/" THEN Origin(base) \o href
    ELSE DirOf(base) \o href

\* an anchor element: element.attrib.get('href') is None without the attribute
NoHref == [has |-> FALSE, href |-> <<>>]
Href(h) == [has |-> TRUE, href |-> h]

DahuaBase == <<"https://", "d">>
DahuaCategory == <<"https://", "d", "/", "c">>

\* f"{url}/{page}.html"
PageUrl(url, page) == url \o <<"/">> \o Decimal(page) \o <<".html">>

\* the for loop of DahuaCrawler.get_links_from_page over the matched anchors
RECURSIVE DahuaLinks(_)
DahuaLinks(elements) ==
    IF elements = <<>> THEN <<>>
    ELSE (IF Head(elements).has /\ Truthy(Head(elements).href)
          THEN <<urljoin(DahuaBase, Head(elements).href)>>
          ELSE <<>>) \o DahuaLinks(Tail(elements))

\* the listing of a Dahua category: pages[k] holds the anchors of page k (a
\* page past the end of the list does not load), markup is what page 1 shows
\* in div.news-page
PageLoads(site, page) == page <= Len(site.pages)

\* DahuaCrawler.get_links_from_page of page number page: one request; a
\* failed request gives no links
DahuaCrawler_get_links_from_page(site, page) ==
    IF PageLoads(site, page) THEN DahuaLinks(site.pages[page]) ELSE <<>>

\* for page in range(2, total_pages + 1): the requests made and the links
\* added, page by page
RECURSIVE DahuaLaterPages(_, _, _)
DahuaLaterPages(site, page, total_pages) ==
    IF page > total_pages THEN [fetches |-> <<>>, links |-> <<>>, iterations |-> 0]
    ELSE LET rest == DahuaLaterPages(site, page + 1, total_pages)
         IN [fetches |-> <<PageUrl(DahuaCategory, page)>> \o rest.fetches,
             links |-> DahuaCrawler_get_links_from_page(site, page) \o rest.links,
             iterations |-> 1 + rest.iterations]

PageResult(raised, fetches, links, iterations) ==
    [raised |-> raised, fetches |-> fetches, links |-> links, iterations |-> iterations]

\* DahuaCrawler.process_category_page when every self.logger call succeeds:
\* get_selector(url) requests page 1, get_links_from_page(url) requests it
\* again, then the pages 2..total_pages are requested once each
DahuaLogged_process_category_page(site) ==
    IF ~PageLoads(site, 1) THEN PageResult("none", <<DahuaCategory>>, <<>>, 0)
    ELSE LET first == DahuaCrawler_get_links_from_page(site, 1)
             twice == <<DahuaCategory, DahuaCategory>>
         IN IF site.markup.kind # "count" THEN PageResult("none", twice, first, 0)
            ELSE LET later == DahuaLaterPages(site, 2, site.markup.total_pages)
                 IN PageResult("none", twice \o later.fetches, first \o later.links,
                               later.iterations)

\* the first statement of the method is self.logger.info(...): without a
\* logger attribute it raises before any request is made
DahuaCrawler_process_category_page(site, logger) ==
    IF logger THEN DahuaLogged_process_category_page(site)
    ELSE PageResult("AttributeError", <<>>, <<>>, 0)

\* the classes whose get_links_from_page is modelled on one page of anchors:
\* the two parsel readers of src/crawlers/ and the Selenium reader of
\* src/base_crawler.py
LinkVendors == {"crawlers.VivotekCrawler", "crawlers.ActiCrawler", "BaseCrawler"}

\* self.base_url
LinkBase(vendor) ==
    CASE vendor = "crawlers.VivotekCrawler" -> <<"https://", "v">>
      [] vendor = "crawlers.ActiCrawler" -> <<"https://", "a">>
      [] OTHER -> <<"https://", "r">>

\* the url argument: a listing of the vendor's own site
LinkPage(vendor) == LinkBase(vendor) \o <<"/", "c">>

\* Python None as an element of the returned list
NoneLink == <<"None">>

\* ActiCrawler.get_links_from_page, the loop over the anchors:
\* link.attrib.get('href') is the attribute as written in the page
RECURSIVE ActiLinks(_, _)
ActiLinks(base_url, links) ==
    IF links = <<>> THEN <<>>
    ELSE LET link == Head(links)
         IN (IF link.has /\ Truthy(link.href)
             THEN <<IF ~StartsWithHttp(link.href) THEN urljoin(base_url, link.href)
                    ELSE link.href>>
             ELSE <<>>) \o ActiLinks(base_url, Tail(links))

\* VivotekCrawler.get_links_from_page of src/crawlers/, either branch:
\* href = prod.attrib.get("href"); if href and not href.startswith("http"):
\* href = f"{self.base_url}{href}"; links.append(href), the append being
\* outside the if
RECURSIVE VivotekLinks(_, _)
VivotekLinks(base_url, prods) ==
    IF prods = <<>> THEN <<>>
    ELSE LET prod == Head(prods)
             href == IF prod.has THEN prod.href ELSE NoneLink
         IN <<IF prod.has /\ Truthy(href) /\ ~StartsWithHttp(href)
              THEN base_url \o href
              ELSE href>> \o VivotekLinks(base_url, Tail(prods))

\* WebElement.get_attribute('href'): the browser gives the URL resolved
\* against the document, None without the attribute
SeleniumHref(page_url, element) ==
    IF element.has THEN Href(urljoin(page_url, element.href)) ELSE NoHref

\* BaseCrawler.get_links_from_page of src/base_crawler.py
RECURSIVE BaseLinks(_, _, _)
BaseLinks(base_url, page_url, elements) ==
    IF elements = <<>> THEN <<>>
    ELSE LET a == SeleniumHref(page_url, Head(elements))
         IN (IF a.has /\ Truthy(a.href)
             THEN <<IF ~StartsWithHttp(a.href) THEN urljoin(base_url, a.href)
                    ELSE a.href>>
             ELSE <<>>) \o BaseLinks(base_url, page_url, Tail(elements))

get_links_from_page(vendor, elements) ==
    CASE vendor = "crawlers.VivotekCrawler" -> VivotekLinks(LinkBase(vendor), elements)
      [] vendor = "crawlers.ActiCrawler" -> ActiLinks(LinkBase(vendor), elements)
      [] OTHER -> BaseLinks(LinkBase(vendor), LinkPage(vendor), elements)

\* HikvisionCrawler: the li elements of .paginationjs-pages, as labels: page
\* numbers, between "prev" and "next" when the bar shows its controls
PageLabel(kind, page) == [kind |-> kind, page |-> page]

PageLabels(n) == [k \in 1..n |-> PageLabel("page", k)]

PaginationBar(n, controls) ==
    IF n = 0 THEN <<>>
    ELSE IF controls
    THEN <<PageLabel("prev", 0)>> \o PageLabels(n) \o <<PageLabel("next", 0)>>
    ELSE PageLabels(n)

\* pagination_elements[index] of a Python list
ListItem(list, index) == list[index + 1]

\* the listing page shown after a click on the element, the listing having
\* been reloaded at page 1 just before
PageAfterClick(label, n) ==
    IF label.kind = "next" THEN (IF n >= 2 THEN 2 ELSE 1)
    ELSE IF label.kind = "prev" THEN 1
    ELSE label.page

(***************************************************************************)
(* State                                                                    *)
(***************************************************************************)
VARIABLES
    \* one call of extract_product_details (specification SpecExtract)
    ex_vendor, ex_url, ex_page, ex_result,
    \* one crawler task: constructor, then run() (specification SpecRun)
    r_vendor,       \* the crawler class
    r_io_fault,     \* the artifact whose write fails with an I/O error
    r_pc,           \* position of the task
    driver,         \* the WebDriver of the task: "none", "open", "quit"
    r_start,        \* index of the current start URL
    r_links,        \* all_product_links (src/) / product_links (src/crawlers/)
    r_i,            \* index of the current link
    all_products,   \* the collected records
    skipped_urls,   \* the skipped links (src/base_crawler.py only)
    r_files,        \* the artifacts on disk
    r_attempted,    \* the artifacts whose write was started
    r_exc,          \* the exception that ended the constructor or run()
    r_summary,      \* the final summary line
    r_trace,        \* history: links found and outcomes, in order
    \* run_crawlers_parallel and its tasks (specification Spec)
    c_pc,           \* position of run_crawlers_parallel
    crawler_classes,\* the classes it was given
    class_names,    \* the --crawlers filter
    max_workers,    \* the --workers option
    c_tasks,        \* the submitted classes, in submission order
    t_state,        \* per task: "queued", "ctor", "run", "finished"
    t_exc,          \* per task: the exception raised inside execute_crawler
    t_result,       \* per task: the value execute_crawler returned
    c_seen,         \* the tasks whose result the as_completed loop has logged
    c_log,          \* the coordinator's own log lines
    \* the exporter applied to one collected list (specification SpecExport)
    x_pc,           \* "collected", "flattened", "formatted", "pivoted",
                    \* "regrouped", "converted"
    x_products,     \* self.all_products
    x_prep,         \* what prepare_data returned
    x_excel,        \* what create_excel_file wrote
    x_pivot,        \* what create_pivot_csv wrote
    x_json,         \* what create_json_file wrote
    x_df,           \* what convert.json_to_dataframe made of that JSON file
    \* link discovery on one listing (specification SpecPages)
    p_vendor,       \* the class whose method runs
    p_site,         \* the listing as the site serves it
    p_pc,           \* "start", "loop", "done"
    p_idx,          \* page_idx of the click-through loop
    p_elems,        \* len(pagination_elements) when the loop started
    p_visits,       \* the listing pages whose links were taken, in order
    p_iters,        \* iterations of the pagination loop so far
    p_out           \* what the method returned, with the requests it made

extractVars == <<ex_vendor, ex_url, ex_page, ex_result>>
runVars == <<r_vendor, r_io_fault, r_pc, driver, r_start, r_links, r_i,
             all_products, skipped_urls, r_files, r_attempted, r_exc,
             r_summary, r_trace>>
coordVars == <<c_pc, crawler_classes, class_names, max_workers, c_tasks, t_state,
               t_exc, t_result, c_seen, c_log>>
exportVars == <<x_pc, x_products, x_prep, x_excel, x_pivot, x_json, x_df>>
pageVars == <<p_vendor, p_site, p_pc, p_idx, p_elems, p_visits, p_iters, p_out>>
vars == <<extractVars, runVars, coordVars, exportVars, pageVars>>

NoSite == [kind |-> "none"]
NoPageResult == PageResult("none", <<>>, <<>>, 0)

PageIdle ==
    /\ p_vendor = "none"
    /\ p_site = NoSite
    /\ p_pc = "idle"
    /\ p_idx = 0
    /\ p_elems = 0
    /\ p_visits = <<>>
    /\ p_iters = 0
    /\ p_out = NoPageResult

NoPrep == [ok |-> FALSE, products_df |-> <<>>, specs_df |-> <<>>]

ExportIdle ==
    /\ x_pc = "idle"
    /\ x_products = <<>>
    /\ x_prep = NoPrep
    /\ x_excel = NotWritten
    /\ x_pivot = NotWritten
    /\ x_json = NotWritten
    /\ x_df = <<>>

NotGiven == [given |-> FALSE, value |-> {}]
NoWorkers == [given |-> FALSE, value |-> 0]

CoordIdle ==
    /\ c_pc = "idle"
    /\ crawler_classes = <<>>
    /\ class_names = NotGiven
    /\ max_workers = NoWorkers
    /\ c_tasks = <<>>
    /\ t_state = <<>>
    /\ t_exc = <<>>
    /\ t_result = <<>>
    /\ c_seen = <<>>
    /\ c_log = <<>>

NoSummary == [kind |-> "none", collected |-> 0, skipped |-> 0]

RunIdle ==
    /\ r_vendor = "crawlers.ActiCrawler"
    /\ r_io_fault = "none"
    /\ r_pc = "idle"
    /\ driver = "none"
    /\ r_start = 1
    /\ r_links = <<>>
    /\ r_i = 1
    /\ all_products = <<>>
    /\ skipped_urls = <<>>
    /\ r_files = NoFiles
    /\ r_attempted = {}
    /\ r_exc = "none"
    /\ r_summary = NoSummary
    /\ r_trace = <<>>

(***************************************************************************)
(* SpecExtract: one call of a vendor's extract_product_details              *)
(***************************************************************************)
Pending == [kind |-> "pending"]

ExtractIdle ==
    /\ ex_vendor = "crawlers.ActiCrawler"
    /\ ex_url = U1
    /\ ex_page = [fault |-> "none", id |-> Absent, name |-> Absent, rows |-> <<>>]
    /\ ex_result = Pending

InitExtract ==
    /\ ex_vendor \in Vendors
    /\ ex_url \in {U1, U2}
    /\ ex_page \in Pages
    /\ ex_result = Pending
    /\ RunIdle
    /\ CoordIdle
    /\ ExportIdle
    /\ PageIdle

CallExtract ==
    /\ ex_result = Pending
    /\ ex_result' = extract_product_details(ex_vendor, ex_url, ex_page)
    /\ UNCHANGED <<ex_vendor, ex_url, ex_page>>
    /\ UNCHANGED <<runVars, coordVars, exportVars, pageVars>>

NextExtract == CallExtract

SpecExtract == InitExtract /\ [][NextExtract]_vars

(***************************************************************************)
(* SpecRun: one crawler task, the constructor and run() of the base class   *)
(* the vendor imports                                                       *)
(***************************************************************************)
RunVendors == PkgVendors \cup RootVendors

\* use_selenium of the constructor call; src/base_crawler.py always starts Chrome
UsesSelenium(vendor) ==
    IF BaseOf(vendor) = "root" THEN TRUE
    ELSE vendor \notin {"crawlers.CPlusWorldCrawler", "crawlers.GeoVisionCrawler",
                        "crawlers.LilinCrawler"}

\* src/everfocus_crawler.py passes use_selenium=True to a constructor that
\* has no such parameter
CtorAcceptsArgs(vendor) == vendor # "EverFocusCrawler"

MaxStartUrls == 2

DeclaredStartUrls(vendor) ==
    CASE vendor = "crawlers.HisharpCrawler" -> 3
      [] vendor = "crawlers.AVerCrawler" -> 2
      [] vendor = "DahuaCrawler" -> 5
      [] OTHER -> 1

StartCount(vendor) ==
    IF DeclaredStartUrls(vendor) < MaxStartUrls THEN DeclaredStartUrls(vendor)
    ELSE MaxStartUrls

IoFaults == {"none", "excel", "pivot", "json", "skipped"}

CtorFaults(vendor) ==
    IF UsesSelenium(vendor) THEN {"none", "before_driver", "after_driver"}
    ELSE {"none", "before_driver"}

PgX == [fault |-> "none", id |-> Elem(<<SP, "X", SP>>), name |-> Elem(<<"N", SP>>),
        rows |-> <<RowGood>>]
PgY == [fault |-> "none", id |-> Elem(<<"Y">>), name |-> Elem(<<"N", SP>>),
        rows |-> <<RowGood, RowTwoParts>>]
PgBlankId == [fault |-> "none", id |-> Elem(TBlank), name |-> Elem(<<"N", SP>>),
              rows |-> <<RowGood>>]
PgNoId == [fault |-> "none", id |-> Absent, name |-> Elem(<<"N", SP>>),
           rows |-> <<RowGood>>]
PgLoad == [fault |-> "load", id |-> Absent, name |-> Absent, rows |-> <<>>]
PgBlankName == [fault |-> "none", id |-> Elem(<<"Y">>), name |-> Elem(TBlank),
                rows |-> <<RowGood>>]

RunPages == {PgX, PgY, PgBlankId, PgNoId, PgLoad, PgBlankName}

RunUrls == {U1, U2}

LinkEvents(urls) == [k \in 1..Len(urls) |-> [ev |-> "link", url |-> urls[k], kind |-> "found"]]

\* the history entry of one process_category_page call
DiscoverEvent == [ev |-> "discover", url |-> <<>>, kind |-> "call"]

FoundCount == Len(SelectSeq(r_trace, LAMBDA e : e.ev = "link"))

InitRun ==
    /\ r_vendor \in RunVendors
    /\ r_io_fault \in IoFaults
    /\ r_pc = "ctor"
    /\ driver = "none"
    /\ r_start = 1
    /\ r_links = <<>>
    /\ r_i = 1
    /\ all_products = <<>>
    /\ skipped_urls = <<>>
    /\ r_files = NoFiles
    /\ r_attempted = {}
    /\ r_exc = "none"
    /\ r_summary = NoSummary
    /\ r_trace = <<>>
    /\ ExtractIdle
    /\ CoordIdle
    /\ ExportIdle
    /\ PageIdle

\* crawler = crawler_class(data_dir=data_dir)
Construct ==
    /\ r_pc = "ctor"
    /\ \E fault \in CtorFaults(r_vendor) :
          IF ~CtorAcceptsArgs(r_vendor)
          THEN /\ r_exc' = "TypeError"
               /\ r_pc' = "crashed"
               /\ UNCHANGED driver
          ELSE /\ driver' = IF UsesSelenium(r_vendor) /\ fault # "before_driver"
                            THEN "open" ELSE "none"
               /\ r_exc' = IF fault = "none" THEN "none" ELSE "Exception"
               /\ r_pc' = IF fault = "none" THEN "discover" ELSE "crashed"
    /\ UNCHANGED <<r_vendor, r_io_fault, r_start, r_links, r_i, all_products,
                   skipped_urls, r_files, r_attempted, r_summary, r_trace>>
    /\ UNCHANGED <<extractVars, coordVars, exportVars, pageVars>>

\* where run() goes when an exception is raised inside it: the root run()
\* catches it and closes in finally, the package run() lets it propagate
AfterRaise(vendor) == IF BaseOf(vendor) = "root" THEN "close" ELSE "crashed"

\* the position after process_category_page(start_urls[start]) returned links
AfterDiscover(vendor, start, links) ==
    IF BaseOf(vendor) = "root"
    THEN IF start < StartCount(vendor) THEN [pc |-> "discover", start |-> start + 1]
         ELSE IF links = <<>> THEN [pc |-> "save", start |-> start]
         ELSE [pc |-> "extract", start |-> start]
    ELSE IF links # <<>> THEN [pc |-> "extract", start |-> start]
         ELSE IF start < StartCount(vendor) THEN [pc |-> "discover", start |-> start + 1]
         ELSE [pc |-> "save", start |-> start]

\* the position after the link at index i was handled
AfterLink(vendor, start, links, i) ==
    IF i < Len(links) THEN [pc |-> "extract", start |-> start, i |-> i + 1]
    ELSE IF BaseOf(vendor) = "pkg" /\ start < StartCount(vendor)
    THEN [pc |-> "discover", start |-> start + 1, i |-> 1]
    ELSE [pc |-> "save", start |-> start, i |-> 1]

\* src/dahua_crawler.py logs through self.logger, which its base never sets
CategoryPageRaises(vendor) == vendor = "DahuaCrawler" /\ ~HasLogger(BaseOf(vendor))

\* product_links = self.process_category_page(start_url)
Discover ==
    /\ r_pc = "discover"
    /\ \E raises \in BOOLEAN, found \in SeqsUpTo(RunUrls, MaxLinks - FoundCount) :
          IF raises \/ CategoryPageRaises(r_vendor)
          THEN /\ r_exc' = IF CategoryPageRaises(r_vendor) THEN "AttributeError"
                           ELSE "Exception"
               /\ r_pc' = AfterRaise(r_vendor)
               /\ r_trace' = Append(r_trace, DiscoverEvent)
               /\ UNCHANGED <<r_start, r_links, r_i>>
          ELSE LET links == IF BaseOf(r_vendor) = "root" THEN r_links \o found
                            ELSE found
                   next == AfterDiscover(r_vendor, r_start, links)
               IN /\ r_links' = links
                  /\ r_i' = 1
                  /\ r_pc' = next.pc
                  /\ r_start' = next.start
                  /\ r_trace' = Append(r_trace, DiscoverEvent) \o LinkEvents(found)
                  /\ UNCHANGED r_exc
    /\ UNCHANGED <<r_vendor, r_io_fault, driver, all_products, skipped_urls,
                   r_files, r_attempted, r_summary>>
    /\ UNCHANGED <<extractVars, coordVars, exportVars, pageVars>>

\* a run that puts each new record in front of the collected ones
CollectRecordFirst(products, product_data) == <<product_data>> \o products

\* all_products.append(product_data)
CollectRecord(products, product_data) == Append(products, product_data)

\* product_data = self.extract_product_details(link); if product_data: ...
Extract ==
    /\ r_pc = "extract"
    /\ \E page \in RunPages :
          LET link == r_links[r_i]
              res == extract_product_details(r_vendor, link, page)
              next == AfterLink(r_vendor, r_start, r_links, r_i)
          IN IF res.kind = "raise"
             THEN /\ r_exc' = res.exc
                  /\ r_pc' = AfterRaise(r_vendor)
                  /\ UNCHANGED <<r_start, r_i, all_products, skipped_urls, r_trace>>
             ELSE /\ all_products' = IF IsRecord(res) THEN CollectRecord(all_products, res.data)
                                     ELSE all_products
                  /\ skipped_urls' = IF ~IsRecord(res) /\ BaseOf(r_vendor) = "root"
                                     THEN Append(skipped_urls, link)
                                     ELSE skipped_urls
                  /\ r_trace' = Append(r_trace, [ev |-> "extract", url |-> link,
                                                 kind |-> res.kind])
                  /\ r_pc' = next.pc
                  /\ r_start' = next.start
                  /\ r_i' = next.i
                  /\ UNCHANGED r_exc
    /\ UNCHANGED <<r_vendor, r_io_fault, driver, r_links, r_files, r_attempted,
                   r_summary>>
    /\ UNCHANGED <<extractVars, coordVars, exportVars, pageVars>>

\* the tail of run() in src/base_crawler.py, from "if self.all_products:"
Root_run_save(products, skipped, io_fault) ==
    IF products = <<>>
    THEN [files |-> NoFiles, attempted |-> {}, raised |-> "none",
          summary |-> [kind |-> "nodata", collected |-> 0, skipped |-> 0]]
    ELSE LET res == Root_process_and_save_data(products, io_fault)
         IN IF res.raised # "none"
            THEN [files |-> res.files, attempted |-> res.attempted,
                  raised |-> res.raised, summary |-> NoSummary]
            ELSE IF skipped # <<>> /\ io_fault = "skipped"
            THEN [files |-> res.files, attempted |-> res.attempted \cup {"skipped"},
                  raised |-> "OSError", summary |-> NoSummary]
            ELSE [files |-> IF skipped # <<>>
                            THEN [res.files EXCEPT !.skipped = Written(skipped)]
                            ELSE res.files,
                  attempted |-> IF skipped # <<>> THEN res.attempted \cup {"skipped"}
                                ELSE res.attempted,
                  raised |-> "none",
                  summary |-> [kind |-> "counts", collected |-> Len(products),
                               skipped |-> Len(skipped)]]

\* the tail of run() in src/crawlers/base_crawler.py, up to the summary line
Pkg_run_save(products, io_fault) ==
    LET res == Pkg_process_and_save_data(products, io_fault)
    IN [files |-> res.files, attempted |-> res.attempted, raised |-> res.raised,
        summary |-> [kind |-> "collected", collected |-> Len(products), skipped |-> 0]]

Save ==
    /\ r_pc = "save"
    /\ LET out == IF BaseOf(r_vendor) = "root"
                  THEN Root_run_save(all_products, skipped_urls, r_io_fault)
                  ELSE Pkg_run_save(all_products, r_io_fault)
       IN /\ r_files' = out.files
          /\ r_attempted' = out.attempted
          /\ r_summary' = out.summary
          /\ r_exc' = out.raised
          /\ r_pc' = "close"
    /\ UNCHANGED <<r_vendor, r_io_fault, driver, r_start, r_links, r_i,
                   all_products, skipped_urls, r_trace>>
    /\ UNCHANGED <<extractVars, coordVars, exportVars, pageVars>>

\* finally: self.close() (src/) / if self.use_selenium and hasattr(self,
\* 'driver'): self.driver.quit() (src/crawlers/)
Close ==
    /\ r_pc = "close"
    /\ driver' = IF driver = "open" THEN "quit" ELSE driver
    /\ r_pc' = "done"
    /\ UNCHANGED <<r_vendor, r_io_fault, r_start, r_links, r_i, all_products,
                   skipped_urls, r_files, r_attempted, r_exc, r_summary, r_trace>>
    /\ UNCHANGED <<extractVars, coordVars, exportVars, pageVars>>

NextRun == Construct \/ Discover \/ Extract \/ Save \/ Close

SpecRun == InitRun /\ [][NextRun]_vars

(***************************************************************************)
(* Spec: src/main.py, run_crawlers_parallel and the tasks of its pool       *)
(***************************************************************************)
\* the classes get_crawler_classes can hand over, in import order
Registry == <<"crawlers.VivotekCrawler", "crawlers.ActiCrawler",
              "crawlers.EverFocusCrawler", "crawlers.CPlusWorldCrawler",
              "crawlers.HisharpCrawler">>

\* cls.__name__
ClassName(vendor) ==
    CASE vendor = "crawlers.VivotekCrawler" -> "VivotekCrawler"
      [] vendor = "crawlers.ActiCrawler" -> "ActiCrawler"
      [] vendor = "crawlers.EverFocusCrawler" -> "EverFocusCrawler"
      [] vendor = "crawlers.CPlusWorldCrawler" -> "CPlusWorldCrawler"
      [] vendor = "crawlers.HisharpCrawler" -> "HisharpCrawler"
      [] OTHER -> vendor

FilterNames == {"VivotekCrawler", "ActiCrawler", "NoSuchCrawler"}

\* ThreadPoolExecutor(max_workers=None): min(32, os.cpu_count() + 4)
DefaultWorkers == 5

\* a pool that takes no notice of the max_workers it was given
WorkersIgnoringOption(mw) == DefaultWorkers

Workers(mw) == IF mw.given THEN mw.value ELSE DefaultWorkers

NoResult == [ok |-> FALSE, text |-> <<>>]

\* an execute_crawler that reports success whatever happened
execute_crawler_always_ok(crawler_name, exc) ==
    [ok |-> TRUE, text |-> <<"run ok", crawler_name>>]

\* the value execute_crawler returns when the constructor and run() ended
\* with exception exc ("none": neither raised)
execute_crawler(crawler_name, exc) ==
    IF exc = "none" THEN [ok |-> TRUE, text |-> <<"run ok", crawler_name>>]
    ELSE [ok |-> FALSE, text |-> <<"run error", crawler_name, exc>>]

Init ==
    /\ c_pc = "called"
    /\ crawler_classes \in {SubSeq(Registry, 1, n) : n \in 0..NumTasks}
    /\ class_names \in {NotGiven} \cup {[given |-> TRUE, value |-> v] : v \in SUBSET FilterNames}
    /\ max_workers \in {NoWorkers} \cup {[given |-> TRUE, value |-> n] : n \in 1..(NumTasks - 1)}
    /\ c_tasks = <<>>
    /\ t_state = <<>>
    /\ t_exc = <<>>
    /\ t_result = <<>>
    /\ c_seen = <<>>
    /\ c_log = <<>>
    /\ ExtractIdle
    /\ RunIdle
    /\ ExportIdle
    /\ PageIdle

\* a run_crawlers_parallel that submits every class, whatever the filter
SubmitIgnoringFilter ==
    /\ c_pc = "called"
    /\ c_tasks' = crawler_classes
    /\ t_state' = [t \in 1..Len(crawler_classes) |-> "queued"]
    /\ t_exc' = [t \in 1..Len(crawler_classes) |-> "none"]
    /\ t_result' = [t \in 1..Len(crawler_classes) |-> NoResult]
    /\ c_log' = <<"running in parallel">>
    /\ c_pc' = "pool"
    /\ UNCHANGED <<crawler_classes, class_names, max_workers, c_seen>>
    /\ UNCHANGED <<extractVars, runVars, exportVars, pageVars>>

\* run_crawlers_parallel up to the submission of the tasks
Submit ==
    /\ c_pc = "called"
    /\ LET filtering == class_names.given /\ class_names.value # {}
           filtered == IF filtering
                       THEN SelectSeq(crawler_classes,
                                      LAMBDA cls : ClassName(cls) \in class_names.value)
                       ELSE crawler_classes
       IN IF crawler_classes = <<>>
          THEN /\ c_log' = <<"no crawler classes">>
               /\ c_pc' = "returned"
               /\ UNCHANGED <<c_tasks, t_state, t_exc, t_result>>
          ELSE IF filtered = <<>>
          THEN /\ c_log' = <<"named classes not found">>
               /\ c_pc' = "returned"
               /\ UNCHANGED <<c_tasks, t_state, t_exc, t_result>>
          ELSE /\ c_tasks' = filtered
               /\ t_state' = [t \in 1..Len(filtered) |-> "queued"]
               /\ t_exc' = [t \in 1..Len(filtered) |-> "none"]
               /\ t_result' = [t \in 1..Len(filtered) |-> NoResult]
               /\ c_log' = <<"running in parallel">>
               /\ c_pc' = "pool"
    /\ UNCHANGED <<crawler_classes, class_names, max_workers, c_seen>>
    /\ UNCHANGED <<extractVars, runVars, exportVars, pageVars>>

Active == {t \in 1..Len(c_tasks) : t_state[t] \in {"ctor", "run"}}

\* a worker thread of the pool takes the oldest queued task
StartTask(t) ==
    /\ c_pc = "pool"
    /\ t_state[t] = "queued"
    /\ \A u \in 1..(t - 1) : t_state[u] # "queued"
    /\ Cardinality(Active) < Workers(max_workers)
    /\ t_state' = [t_state EXCEPT ![t] = "ctor"]
    /\ UNCHANGED <<c_pc, crawler_classes, class_names, max_workers, c_tasks, t_exc,
                   t_result, c_seen, c_log>>
    /\ UNCHANGED <<extractVars, runVars, exportVars, pageVars>>

\* crawler = crawler_class(data_dir=data_dir), inside the try of execute_crawler
TaskConstruct(t) ==
    /\ c_pc = "pool"
    /\ t_state[t] = "ctor"
    /\ \E fault \in CtorFaults(c_tasks[t]) :
          IF fault = "none" /\ CtorAcceptsArgs(c_tasks[t])
          THEN /\ t_state' = [t_state EXCEPT ![t] = "run"]
               /\ UNCHANGED <<t_exc, t_result>>
          ELSE LET exc == IF CtorAcceptsArgs(c_tasks[t]) THEN "Exception" ELSE "TypeError"
               IN /\ t_state' = [t_state EXCEPT ![t] = "finished"]
                  /\ t_exc' = [t_exc EXCEPT ![t] = exc]
                  /\ t_result' = [t_result EXCEPT ![t] =
                                     execute_crawler(ClassName(c_tasks[t]), exc)]
    /\ UNCHANGED <<c_pc, crawler_classes, class_names, max_workers, c_tasks, c_seen, c_log>>
    /\ UNCHANGED <<extractVars, runVars, exportVars, pageVars>>

\* the exceptions run() can end with: the run() of src/base_crawler.py
\* catches its own, the run() of src/crawlers/base_crawler.py lets them out
RunOutcomes(vendor) ==
    IF AfterRaise(vendor) = "crashed" THEN {"none", "Exception"} ELSE {"none"}

\* crawler.run() and the return of execute_crawler
TaskRun(t) ==
    /\ c_pc = "pool"
    /\ t_state[t] = "run"
    /\ \E exc \in RunOutcomes(c_tasks[t]) :
          /\ t_exc' = [t_exc EXCEPT ![t] = exc]
          /\ t_result' = [t_result EXCEPT ![t] = execute_crawler(ClassName(c_tasks[t]), exc)]
    /\ t_state' = [t_state EXCEPT ![t] = "finished"]
    /\ UNCHANGED <<c_pc, crawler_classes, class_names, max_workers, c_tasks, c_seen, c_log>>
    /\ UNCHANGED <<extractVars, runVars, exportVars, pageVars>>

\* one turn of "for future in as_completed(future_to_crawler)"
Collect(t) ==
    /\ c_pc = "pool"
    /\ t_state[t] = "finished"
    /\ t \notin Range(c_seen)
    /\ c_seen' = Append(c_seen, t)
    /\ c_log' = Append(c_log, t_result[t].text)
    /\ UNCHANGED <<c_pc, crawler_classes, class_names, max_workers, c_tasks, t_state,
                   t_exc, t_result>>
    /\ UNCHANGED <<extractVars, runVars, exportVars, pageVars>>

\* a coordinator that returns without waiting for its tasks
FinishWithoutWaiting ==
    /\ c_pc = "pool"
    /\ c_pc' = "finished"
    /\ c_log' = Append(c_log, "all tasks done")
    /\ UNCHANGED <<crawler_classes, class_names, max_workers, c_tasks, t_state, t_exc,
                   t_result, c_seen>>
    /\ UNCHANGED <<extractVars, runVars, exportVars, pageVars>>

\* the loop and the with-block end when every future was yielded
Finish ==
    /\ c_pc = "pool"
    /\ Range(c_seen) = 1..Len(c_tasks)
    /\ c_pc' = "finished"
    /\ c_log' = Append(c_log, "all tasks done")
    /\ UNCHANGED <<crawler_classes, class_names, max_workers, c_tasks, t_state, t_exc,
                   t_result, c_seen>>
    /\ UNCHANGED <<extractVars, runVars, exportVars, pageVars>>

Next ==
    \/ Submit
    \/ \E t \in 1..Len(c_tasks) : StartTask(t)
    \/ \E t \in 1..Len(c_tasks) : TaskConstruct(t)
    \/ \E t \in 1..Len(c_tasks) : TaskRun(t)
    \/ \E t \in 1..Len(c_tasks) : Collect(t)
    \/ Finish

Spec == Init /\ [][Next]_vars

(***************************************************************************)
(* SpecExport: prepare_data, then create_json_file, on one collected list   *)
(***************************************************************************)
ExportIds == {<<"X">>, <<"Y">>}
ExportNames == {<<"N">>, <<"M">>}

\* the specifications dict of a record: distinct parameter names, in
\* insertion order
ExportSpecs ==
    {<<>>,
     << <<<<"b">>, <<"v">>>> >>,
     << <<<<"a">>, <<"v">>>>, <<<<"b">>, <<"w">>>> >>}

ExportRecords ==
    {[id |-> i, name |-> n, url |-> U1, specifications |-> sp] :
        i \in ExportIds, n \in ExportNames, sp \in ExportSpecs}

InitExport ==
    /\ x_pc = "collected"
    /\ x_products \in SeqsUpTo(ExportRecords, MaxRecords)
    /\ x_prep = NoPrep
    /\ x_excel = NotWritten
    /\ x_pivot = NotWritten
    /\ x_json = NotWritten
    /\ x_df = <<>>
    /\ ExtractIdle
    /\ RunIdle
    /\ CoordIdle
    /\ PageIdle

\* products_df, specs_df = self.prepare_data()
Flatten ==
    /\ x_pc = "collected"
    /\ x_prep' = prepare_data(x_products)
    /\ x_pc' = "flattened"
    /\ UNCHANGED <<x_products, x_excel, x_pivot, x_json, x_df>>
    /\ UNCHANGED <<extractVars, runVars, coordVars, pageVars>>

\* product_name_map = dict(zip(...)); self.create_excel_file(specs_df,
\* product_name_map, ...): an empty table has no product_id column and raises
\* KeyError before anything is written
Excel ==
    /\ x_pc = "flattened"
    /\ x_excel' = IF x_prep.ok /\ x_prep.specs_df # <<>>
                  THEN Written(create_excel_file(x_prep.specs_df,
                                                 product_name_map(x_prep.products_df)))
                  ELSE NotWritten
    /\ x_pc' = "formatted"
    /\ UNCHANGED <<x_products, x_prep, x_pivot, x_json, x_df>>
    /\ UNCHANGED <<extractVars, runVars, coordVars, pageVars>>

\* self.create_pivot_csv(specs_df, ...): an empty table has no columns to
\* pivot on and raises KeyError before anything is written
PivotCsv ==
    /\ x_pc = "formatted"
    /\ x_pivot' = IF x_prep.ok /\ x_prep.specs_df # <<>>
                  THEN Written(create_pivot_csv(x_prep.specs_df))
                  ELSE NotWritten
    /\ x_pc' = "pivoted"
    /\ UNCHANGED <<x_products, x_prep, x_excel, x_json, x_df>>
    /\ UNCHANGED <<extractVars, runVars, coordVars, pageVars>>

\* self.create_json_file(specs_df, ...): an empty table has no product_id
\* column and raises KeyError before anything is written
Regroup ==
    /\ x_pc = "pivoted"
    /\ x_json' = IF x_prep.ok /\ x_prep.specs_df # <<>>
                 THEN Written(create_json_file(x_prep.specs_df))
                 ELSE NotWritten
    /\ x_pc' = "regrouped"
    /\ UNCHANGED <<x_products, x_prep, x_excel, x_pivot, x_df>>
    /\ UNCHANGED <<extractVars, runVars, coordVars, pageVars>>

\* convert.py main(): df = json_to_dataframe(json_file) for each JSON file
\* found under the data directory
Convert ==
    /\ x_pc = "regrouped"
    /\ x_json.written
    /\ x_df' = json_to_dataframe(x_json.content)
    /\ x_pc' = "converted"
    /\ UNCHANGED <<x_products, x_prep, x_excel, x_pivot, x_json>>
    /\ UNCHANGED <<extractVars, runVars, coordVars, pageVars>>

NextExport == Flatten \/ Excel \/ PivotCsv \/ Regroup \/ Convert

SpecExport == InitExport /\ [][NextExport]_vars

(***************************************************************************)
(* SpecPages: one call of a vendor's link discovery on one listing          *)
(***************************************************************************)
\* what div.news-page of page 1 shows: no such element, fewer than two
\* anchors, a second-last anchor whose text is no integer, or a page count
PageMarkups ==
    {[kind |-> k, total_pages |-> 0] : k \in {"none", "short", "text"}}
    \cup {[kind |-> "count", total_pages |-> n] : n \in 0..MaxPages}

DahuaPageChoices ==
    {<<>>,
     <<Href(<<"https://", "d", "/", "a">>)>>,
     <<NoHref, Href(<<"/", "b">>)>>}

DahuaSites ==
    {[kind |-> "dahua", pages |-> pg, markup |-> mk] :
        pg \in SeqsUpTo(DahuaPageChoices, MaxPages), mk \in PageMarkups}

\* tracks: whether the listing's URL carries the page shown, so that loading
\* driver.current_url after a click shows that page and not page 1
HikvisionSites ==
    {[kind |-> "hikvision", pages |-> n, controls |-> c, tracks |-> t] :
        n \in 0..MaxPages, c \in BOOLEAN, t \in BOOLEAN}

\* the anchors a selector matches on a page: without href, with an absolute
\* href, with a href relative to the root of the site
Anchors == {NoHref, Href(<<"https://", "o", "/", "a">>), Href(<<"/", "b">>)}

LinkSites == {[kind |-> "page", anchors |-> a] : a \in SeqsUpTo(Anchors, MaxAnchors)}

InitPages ==
    /\ \/ p_vendor = "DahuaCrawler" /\ p_site \in DahuaSites
       \/ p_vendor = "HikvisionCrawler" /\ p_site \in HikvisionSites
       \/ p_vendor \in LinkVendors /\ p_site \in LinkSites
    /\ p_pc = "start"
    /\ p_idx = 0
    /\ p_elems = 0
    /\ p_visits = <<>>
    /\ p_iters = 0
    /\ p_out = NoPageResult
    /\ ExtractIdle
    /\ RunIdle
    /\ CoordIdle
    /\ ExportIdle

\* product_links = self.process_category_page(start_url) of DahuaCrawler
DahuaProcess ==
    /\ p_pc = "start"
    /\ p_vendor = "DahuaCrawler"
    /\ p_out' = DahuaCrawler_process_category_page(p_site,
                                                   HasLogger(BaseOf(p_vendor)))
    /\ p_iters' = p_out'.iterations
    /\ p_pc' = "done"
    /\ UNCHANGED <<p_vendor, p_site, p_idx, p_elems, p_visits>>
    /\ UNCHANGED <<extractVars, runVars, coordVars, exportVars>>

\* process_product_page_with_pagination up to the for loop: the links of the
\* first page are taken and extracted, the listing is loaded again and the
\* pagination elements are counted
HikFirstPage ==
    /\ p_pc = "start"
    /\ p_vendor = "HikvisionCrawler"
    /\ p_visits' = <<1>>
    /\ p_elems' = Len(PaginationBar(p_site.pages, p_site.controls))
    /\ p_idx' = 1
    /\ p_pc' = IF p_elems' > 2 /\ 1 < p_elems' - 1 THEN "loop" ELSE "done"
    /\ UNCHANGED <<p_vendor, p_site, p_iters, p_out>>
    /\ UNCHANGED <<extractVars, runVars, coordVars, exportVars>>

\* a loop that goes on for as long as the bar has an element to click,
\* without advancing page_idx
HikClickPageWhilePresent ==
    /\ p_pc = "loop"
    /\ p_idx < p_elems - 1
    /\ p_iters' = p_iters + 1
    /\ UNCHANGED <<p_vendor, p_site, p_pc, p_idx, p_elems, p_visits, p_out>>
    /\ UNCHANGED <<extractVars, runVars, coordVars, exportVars>>

\* one iteration of for page_idx in range(1, len(pagination_elements) - 1):
\* reload, click pagination_elements[page_idx + 1], take the links of
\* driver.current_url; a click that raises is caught and the loop goes on
HikClickPage ==
    /\ p_pc = "loop"
    /\ p_idx < p_elems - 1
    /\ \E click_ok \in BOOLEAN :
          LET bar == PaginationBar(p_site.pages, p_site.controls)
              page_element == ListItem(bar, p_idx + 1)
              shown == PageAfterClick(page_element, p_site.pages)
          IN p_visits' = IF click_ok
                         THEN Append(p_visits, IF p_site.tracks THEN shown ELSE 1)
                         ELSE p_visits
    /\ p_iters' = p_iters + 1
    /\ p_idx' = p_idx + 1
    /\ p_pc' = IF p_idx' < p_elems - 1 THEN "loop" ELSE "done"
    /\ UNCHANGED <<p_vendor, p_site, p_elems, p_out>>
    /\ UNCHANGED <<extractVars, runVars, coordVars, exportVars>>

\* links = self.get_links_from_page(url) on a page that loads
GetLinks ==
    /\ p_pc = "start"
    /\ p_vendor \in LinkVendors
    /\ p_out' = PageResult("none", <<LinkPage(p_vendor)>>,
                           get_links_from_page(p_vendor, p_site.anchors), 0)
    /\ p_pc' = "done"
    /\ UNCHANGED <<p_vendor, p_site, p_idx, p_elems, p_visits, p_iters>>
    /\ UNCHANGED <<extractVars, runVars, coordVars, exportVars>>

NextPages == DahuaProcess \/ HikFirstPage \/ HikClickPage \/ GetLinks

SpecPages == InitPages /\ [][NextPages]_vars

(***************************************************************************)
(* Properties                                                               *)
(***************************************************************************)
TraceUrls(trace, ev, kind) ==
    LET hits == SelectSeq(trace, LAMBDA e : e.ev = ev /\ e.kind = kind)
    IN [k \in 1..Len(hits) |-> hits[k].url]

Ended == r_pc \in {"done", "crashed"}

\* a collected record as the JSON object {product_id, product_name, params}
JsonView(rec) ==
    IF HasSpecLayout(rec)
    THEN [product_id |-> rec.id,
          product_name |-> rec.name,
          params |-> [j \in 1..Len(rec.specifications) |->
                         Param(rec.specifications[j][1], rec.specifications[j][2])]]
    ELSE rec

\* C1: when a task of run_crawlers_parallel raises in its constructor or in
\* run(), it reports a failure carrying the exception's message, and the
\* other tasks are not cancelled: each still runs to its end and reports by
\* its own outcome, success when it did not raise.
C1_FailureIsIsolated ==
    c_pc = "finished" =>
        \A t \in 1..Len(c_tasks) :
            /\ t_state[t] = "finished"
            /\ t \in Range(c_seen)
            /\ t_exc[t] = "none" =>
                  t_result[t] = [ok |-> TRUE, text |-> <<"run ok", ClassName(c_tasks[t])>>]
            /\ t_exc[t] # "none" =>
                  /\ ~t_result[t].ok
                  /\ t_result[t].text = <<"run error", ClassName(c_tasks[t]), t_exc[t]>>

\* three tasks ended, exactly one of them raised and the other two succeeded
C1_Witness ==
    /\ c_pc = "finished"
    /\ Len(c_tasks) = NumTasks
    /\ \E t \in 1..Len(c_tasks) :
          /\ t_exc[t] # "none"
          /\ ~t_result[t].ok
          /\ \A u \in (1..Len(c_tasks)) \ {t} : t_exc[u] = "none" /\ t_result[u].ok

\* C2: in run(), a link whose extraction outcome is None is appended to the
\* skipped links, nothing is appended to the collected records, and the run
\* goes on with the next link (or start URL, or the save step).
C2_NoneOutcomeIsSkipped ==
    [][(/\ r_pc = "extract"
        /\ r_trace' = Append(r_trace, [ev |-> "extract", url |-> r_links[r_i],
                                       kind |-> "None"]))
       => /\ skipped_urls' = Append(skipped_urls, r_links[r_i])
          /\ all_products' = all_products
          /\ r_pc' \in {"extract", "discover", "save"}]_vars

\* C3: every collected record has a product_id that is non-empty after
\* trimming, whatever the vendor.
C3_CollectedIdsNonEmpty ==
    \A i \in 1..Len(all_products) : Truthy(Strip(RecordId(all_products[i])))

\* the vendors whose extractor reads the product_id from an element of the page
ReadsIdElement(vendor) == vendor # "crawlers.LilinCrawler"

\* C4: every vendor's extractor returns None when the page fails to load or
\* the product_id element cannot be located within the wait.
C4_NoIdElementGivesNone ==
    (/\ ex_result # Pending
     /\ \/ ex_page.fault = "load"
        \/ ReadsIdElement(ex_vendor) /\ (ex_page.fault = "id" \/ ~ex_page.id.found))
    => ex_result = NoneResult

\* C5: no exception propagates out of extract_product_details, for every
\* vendor paired with the base class it imports.
C5_ExtractNeverRaises == ex_result.kind # "raise"

\* C6: when a task has ended, on whatever path, the WebDriver it created has
\* been quit.
C6_DriverQuitAtTaskEnd == Ended => driver # "open"

\* C7: a run() that ends with at least one skipped link has written the
\* skipped-URL file with exactly the skipped URLs in order, whatever the
\* number of collected records.
C7_SkippedFileWritten ==
    (/\ r_pc = "done"
     /\ r_exc = "none"
     /\ r_io_fault = "none"
     /\ TraceUrls(r_trace, "extract", "None") # <<>>)
    => r_files.skipped = Written(TraceUrls(r_trace, "extract", "None"))

ArtifactsOf(base) == IF base = "root" THEN {"excel", "pivot", "json"} ELSE {"json"}

\* C8: in process_and_save_data a failure writing one artifact skips only
\* that artifact: the other artifacts are still attempted.
C8_OtherArtifactsAttempted ==
    (r_pc \in {"close", "done"} /\ r_attempted # {})
    => ArtifactsOf(BaseOf(r_vendor)) \subseteq r_attempted

\* C9: after a run() that collected at least one record and met no I/O
\* error, the JSON artifact is the array of exactly the collected records, in
\* collection order, each with its id, name and ordered parameters.
C9_JsonIsCollectedInOrder ==
    (/\ r_pc = "done"
     /\ r_exc = "none"
     /\ r_io_fault = "none"
     /\ all_products # <<>>)
    => r_files.json = Written([i \in 1..Len(all_products) |-> JsonView(all_products[i])])

\* the URLs handed to extract_product_details so far, in call order
ExtractedUrls ==
    LET hits == SelectSeq(r_trace, LAMBDA e : e.ev = "extract")
    IN [k \in 1..Len(hits) |-> hits[k].url]

\* C11: within one run the links are extracted in the order they were
\* discovered and each record is put behind the records collected before it,
\* so the collected records are in the discovery order of their links.
C11_CollectedInDiscoveryOrder ==
    LET found == TraceUrls(r_trace, "link", "found")
        recs == TraceUrls(r_trace, "extract", "record")
    IN /\ Len(ExtractedUrls) <= Len(found)
       /\ ExtractedUrls = SubSeq(found, 1, Len(ExtractedUrls))
       /\ Len(all_products) = Len(recs)
       /\ \A i \in 1..Len(all_products) :
             /\ HasSpecLayout(all_products[i]) => all_products[i].url = recs[i]
             /\ r_vendor = "crawlers.LilinCrawler" =>
                   all_products[i].product_id = LastSegment(recs[i])

\* a finished run collected two records from two different links, and the
\* records tell which link each came from
C11_Witness ==
    /\ r_pc = "done"
    /\ Len(all_products) = 2
    /\ TraceUrls(r_trace, "extract", "record") = <<U2, U1>>
    /\ \/ HasSpecLayout(all_products[1])
       \/ r_vendor = "crawlers.LilinCrawler"

\* C12: in run(), no extract_product_details call happens before the last
\* process_category_page call of the run.
C12_DiscoveryBeforeExtraction ==
    \A i, j \in 1..Len(r_trace) :
        i < j => ~(r_trace[i].ev = "extract" /\ r_trace[j].ev = "discover")

\* C13: run_crawlers_parallel returns, and logs that all tasks are done, only
\* after every submitted task has ended, and it reports exactly one result
\* per submitted task, whatever the order in which the tasks end.
C13_WaitsForAllTasks ==
    /\ c_pc = "pool" => Len(c_log) = 1 + Len(c_seen)
    /\ c_pc = "finished" =>
          /\ \A t \in 1..Len(c_tasks) : t_state[t] = "finished"
          /\ Len(c_seen) = Len(c_tasks)
          /\ Range(c_seen) = 1..Len(c_tasks)
          /\ c_log = <<"running in parallel">>
                     \o [k \in 1..Len(c_seen) |-> t_result[c_seen[k]].text]
                     \o <<"all tasks done">>

\* the coordinator returned after three tasks that ended in an order other
\* than the submission order, one of them with a failure
C13_Witness ==
    /\ c_pc = "finished"
    /\ Len(c_tasks) = NumTasks
    /\ c_seen[1] = NumTasks
    /\ \E t \in 1..Len(c_tasks) : ~t_result[t].ok

\* C14: while run_crawlers_parallel runs, the number of tasks running at the
\* same time never exceeds the max_workers the caller supplied.
C14_RunningWithinMaxWorkers ==
    max_workers.given => Cardinality(Active) <= max_workers.value

\* the pool is full: as many tasks run as max_workers allows and another
\* task is still queued
C14_Witness ==
    /\ c_pc = "pool"
    /\ max_workers.given
    /\ Cardinality(Active) = max_workers.value
    /\ \E t \in 1..Len(c_tasks) : t_state[t] = "queued"

NoClassMatches ==
    /\ class_names.given
    /\ class_names.value # {}
    /\ \A i \in 1..Len(crawler_classes) : ClassName(crawler_classes[i]) \notin class_names.value

IdAvailable ==
    \/ ~ReadsIdElement(ex_vendor)
    \/ ex_page.id.found /\ Truthy(Strip(ex_page.id.text))

NameMissingOrEmpty == ~ex_page.name.found \/ ~Truthy(Strip(ex_page.name.text))

\* C16: on a page that loads, has its product_id and raises nothing while
\* it is read, a missing or empty product_name, or a table with no
\* parameter, never makes a vendor's extractor return None: a record is
\* still returned.
C16_OptionalFieldsNeverGiveNone ==
    (/\ ex_result # Pending
     /\ ex_page.fault = "none"
     /\ IdAvailable
     /\ ~RowsRaise(ex_page.rows)
     /\ NameMissingOrEmpty \/ ex_page.rows = <<>>)
    => IsRecord(ex_result)

ExportedNames ==
    (IF r_files.json.written
     THEN {r_files.json.content[k].product_name : k \in 1..Len(r_files.json.content)}
     ELSE {})
    \cup (IF r_files.excel.written
          THEN {r_files.excel.content.rows[k][2] : k \in 1..Len(r_files.excel.content.rows)}
          ELSE {})
    \cup (IF r_files.pivot.written
          THEN {r_files.pivot.content.rows[k].product_name :
                   k \in 1..Len(r_files.pivot.content.rows)}
          ELSE {})

\* C17: the product_name of every collected record, and of every exported
\* row or object, is never the empty string.
C17_NameNeverEmpty ==
    /\ \A i \in 1..Len(all_products) : Truthy(RecordName(all_products[i]))
    /\ \A n \in ExportedNames : Truthy(n)

\* C18: in every record a vendor's extractor returns, every parameter has a
\* non-empty name and a non-empty value.
C18_ParamsNonEmpty ==
    IsRecord(ex_result) =>
        LET params == JsonView(ex_result.data).params
        IN \A k \in 1..Len(params) :
              Truthy(params[k].paramName) /\ Truthy(params[k].param)

Injective(seq) == \A i, j \in 1..Len(seq) : i # j => seq[i] # seq[j]

\* rows with the same first column form one block
OneBlockPerId(rows) ==
    \A i, j, k \in 1..Len(rows) :
        (i < k /\ k < j /\ rows[i][1] = rows[j][1]) => rows[k][1] = rows[i][1]

\* C19: in every output a run wrote (JSON, grouped Excel, pivot CSV) each
\* product_id identifies at most one object, group or row, also when several
\* links yielded records with the same product_id.
C19_IdsUniqueInOutputs ==
    /\ r_files.json.written =>
          Injective([k \in 1..Len(r_files.json.content) |->
                        r_files.json.content[k].product_id])
    /\ r_files.pivot.written =>
          Injective([k \in 1..Len(r_files.pivot.content.rows) |->
                        r_files.pivot.content.rows[k].product_id])
    /\ r_files.excel.written => OneBlockPerId(r_files.excel.content.rows)

FirstOccurrence(params, name) ==
    LET hits == SelectSeq(params, LAMBDA p : p.paramName = name)
    IN IF hits = <<>> THEN [present |-> FALSE, value |-> <<>>]
       ELSE [present |-> TRUE, value |-> hits[1].param]

FrameCell(cells, name) ==
    LET hits == SelectSeq(cells, LAMBDA c : c[1] = name)
    IN IF hits = <<>> THEN [present |-> FALSE, value |-> <<>>]
       ELSE [present |-> TRUE, value |-> hits[1][2]]

ParamsOfGroup(specs_df, pid, pname) ==
    LET group == SelectSeq(specs_df, LAMBDA r : /\ r.product_id = pid
                                                /\ r.product_name = pname)
    IN [k \in 1..Len(group) |-> Param(group[k].param_name, group[k].param_value)]

ParamNames == {<<"a">>, <<"b">>}

\* C20: in the pivot export each (product_id, product_name) group has exactly
\* one row, and the cell of a parameter name holds the value of the first
\* occurrence of that name among the product's parameters, in their order; a
\* name the product lacks gives an absent cell.  This is stated of both pivot
\* exports: the CSV create_pivot_csv writes from the flattened table, and the
\* data frame convert.json_to_dataframe builds from the JSON file.
C20_PivotFirstOccurrence ==
    /\ x_pivot.written =>
          LET pv == x_pivot.content
              key(r) == <<pv.rows[r].product_id, pv.rows[r].product_name>>
          IN /\ \A r1, r2 \in 1..Len(pv.rows) : key(r1) = key(r2) => r1 = r2
             /\ \A i \in 1..Len(x_prep.specs_df) :
                   \E r \in 1..Len(pv.rows) :
                       key(r) = <<x_prep.specs_df[i].product_id,
                                  x_prep.specs_df[i].product_name>>
             /\ \A r \in 1..Len(pv.rows) : \A c \in 1..Len(pv.columns) :
                   pv.rows[r].cells[c] =
                       FirstOccurrence(ParamsOfGroup(x_prep.specs_df,
                                                     pv.rows[r].product_id,
                                                     pv.rows[r].product_name),
                                       pv.columns[c])
    /\ x_pc = "converted" =>
          /\ Len(x_df) = Len(x_json.content)
          /\ \A r1, r2 \in 1..Len(x_df) :
                (/\ x_df[r1].product_id = x_df[r2].product_id
                 /\ x_df[r1].product_name = x_df[r2].product_name) => r1 = r2
          /\ \A r \in 1..Len(x_df) : \A n \in ParamNames :
                FrameCell(x_df[r].cells, n) =
                    FirstOccurrence(x_json.content[r].params, n)

\* every product id-to-name map over the ids and names of the export inputs,
\* partial maps included (a missing id is rendered with the default name)
NameMaps == UNION {[D -> ExportNames] : D \in SUBSET ExportIds}

SameIdSameName(sheet) ==
    \A r1, r2 \in 1..Len(sheet.rows) :
        sheet.rows[r1][1] = sheet.rows[r2][1] => sheet.rows[r1][2] = sheet.rows[r2][2]

\* C21: in the grouped (merged-cell) export any two rows with the same
\* product_id carry the same product_name: in the workbook the exporter
\* wrote, and in the workbook create_excel_file makes of the flattened table
\* with any product id-to-name map.
C21_OneNamePerIdInExcel ==
    /\ x_excel.written => SameIdSameName(x_excel.content)
    /\ (x_prep.ok /\ x_prep.specs_df # <<>>) =>
          \A map \in NameMaps : SameIdSameName(create_excel_file(x_prep.specs_df, map))

\* a workbook of one product id whose two collected records had different
\* names has been written
C21_Witness ==
    /\ x_excel.written
    /\ \E i, j \in 1..Len(x_prep.specs_df) :
          /\ x_prep.specs_df[i].product_id = x_prep.specs_df[j].product_id
          /\ x_prep.specs_df[i].product_name # x_prep.specs_df[j].product_name

\* C22: when a vendor's run() has ended without an exception, its final
\* summary line states both the number of collected records and the number of
\* skipped links.
C22_SummaryReportsBothCounts ==
    (r_pc = "done" /\ r_exc = "none")
    => /\ r_summary.kind = "counts"
       /\ r_summary.collected = Len(all_products)
       /\ r_summary.skipped = Len(TraceUrls(r_trace, "extract", "None"))

\* what count-based pagination is to request and to return for a page count n
RECURSIVE LinksOfPages(_, _, _)
LinksOfPages(site, page, n) ==
    IF page > n THEN <<>>
    ELSE DahuaCrawler_get_links_from_page(site, page) \o LinksOfPages(site, page + 1, n)

CountedFetches(n) ==
    <<DahuaCategory>> \o [k \in 1..(n - 1) |-> PageUrl(DahuaCategory, k + 1)]

CountBased(site, out) ==
    (PageLoads(site, 1) /\ site.markup.kind = "count" /\ site.markup.total_pages >= 1)
    => /\ out.raised = "none"
       /\ out.fetches = CountedFetches(site.markup.total_pages)
       /\ out.links = LinksOfPages(site, 1, site.markup.total_pages)

\* C23: when the pagination markup of page 1 of a Dahua category gives a page
\* count n >= 1, process_category_page makes exactly n requests, one for
\* page 1 and one for '<category url>/<k>.html' for each k in 2..n in
\* ascending order, and returns the links of pages 1..n in that order.
C23_CountBasedPagination ==
    (p_vendor = "DahuaCrawler" /\ p_pc = "done") => CountBased(p_site, p_out)

ParsedPageCount(site) == IF site.markup.kind = "count" THEN site.markup.total_pages ELSE 0

AtMost(n) == IF n >= 1 THEN n - 1 ELSE 0

\* C24: every pagination loop is bounded.  Dahua's count-based loop makes at
\* most n - 1 iterations for a parsed page count n and none when n <= 1,
\* with or without a logger on the crawler; Hikvision's click-through loop
\* makes at most as many iterations as the bar had elements when the loop
\* started, a "next" control on every page included, and while it runs its
\* index stays below that number.
C24_PaginationLoopsBounded ==
    /\ p_vendor = "DahuaCrawler" =>
          /\ p_iters <= AtMost(ParsedPageCount(p_site))
          /\ \A logger \in BOOLEAN :
                DahuaCrawler_process_category_page(p_site, logger).iterations
                    <= AtMost(ParsedPageCount(p_site))
    /\ p_vendor = "HikvisionCrawler" =>
          /\ p_iters <= p_elems
          /\ p_pc = "loop" => (p_idx < p_elems - 1 /\ p_iters = p_idx - 1)

\* the click-through loop has ended on a bar that shows "next", after more
\* than one iteration
C24_Witness ==
    /\ p_vendor = "HikvisionCrawler"
    /\ p_pc = "done"
    /\ p_site.controls
    /\ p_iters >= 2

\* the worksheet rows (row 1 being the header) that carry a product id
SheetRowsOf(sheet, pid) == {k + 1 : k \in {j \in 1..Len(sheet.rows) : sheet.rows[j][1] = pid}}

Lowest(S) == CHOOSE a \in S : \A b \in S : a <= b
Highest(S) == CHOOSE a \in S : \A b \in S : a >= b

SheetIds(sheet) == [k \in 1..Len(sheet.rows) |-> sheet.rows[k][1]]

GroupedSheet(sheet, specs_df) ==
    LET ids == Range(SheetIds(sheet))
    IN /\ Len(sheet.rows) = Len(specs_df)
       \* one contiguous block per id
       /\ \A pid \in ids :
             SheetRowsOf(sheet, pid) =
                 Lowest(SheetRowsOf(sheet, pid))..Highest(SheetRowsOf(sheet, pid))
       \* blocks in the order of first appearance in the flattened table
       /\ UniqueInOrder(SheetIds(sheet)) = UniqueInOrder(Column(specs_df, "product_id"))
       \* a block holds the id's parameters in table order
       /\ \A pid \in ids :
             LET block == SelectSeq(sheet.rows, LAMBDA r : r[1] = pid)
                 group == GroupRows(specs_df, "product_id", pid)
             IN /\ Len(block) = Len(group)
                /\ \A k \in 1..Len(block) :
                      /\ block[k][3] = group[k].param_name
                      /\ block[k][4] = group[k].param_value
       \* merges: columns A and B over exactly the rows of each block of two
       \* or more rows, and nothing else
       /\ sheet.merges =
             UNION {IF Cardinality(SheetRowsOf(sheet, pid)) >= 2
                    THEN {<<col, Lowest(SheetRowsOf(sheet, pid)),
                            Highest(SheetRowsOf(sheet, pid))>> : col \in {"A", "B"}}
                    ELSE {} : pid \in ids}
       /\ \A m1, m2 \in sheet.merges :
             (m1[1] = m2[1] /\ m1 # m2) => (m1[3] < m2[2] \/ m2[3] < m1[2])

\* C25: in the grouped Excel export the data rows start at row 2, the rows of
\* each product_id form one contiguous block, the blocks follow the first
\* appearance of their product_id in the flattened table, a block of two or
\* more rows has its id and name cells merged over exactly its rows, a block
\* of one row has no merge, and merges of distinct ids never overlap.
C25_ExcelBlocksAreContiguous ==
    x_excel.written => GroupedSheet(x_excel.content, x_prep.specs_df)

\* a workbook has been written of a table in which the rows of one product id
\* are separated by a row of another id
C25_Witness ==
    /\ x_excel.written
    /\ \E i, j, k \in 1..Len(x_prep.specs_df) :
          /\ i < j /\ j < k
          /\ x_prep.specs_df[i].product_id = x_prep.specs_df[k].product_id
          /\ x_prep.specs_df[j].product_id # x_prep.specs_df[i].product_id

RECURSIVE ParamCount(_)
ParamCount(products) ==
    IF products = <<>> THEN 0
    ELSE Len(Head(products).specifications) + ParamCount(Tail(products))

\* the j-th parameter of the i-th record sits at row ParamCount(records
\* before i) + j
OneRowPerParameter(products, specs_df) ==
    /\ Len(specs_df) = ParamCount(products)
    /\ \A i \in 1..Len(products) : \A j \in 1..Len(products[i].specifications) :
          specs_df[ParamCount(SubSeq(products, 1, i - 1)) + j] =
              [product_id |-> products[i].id,
               product_name |-> products[i].name,
               param_name |-> products[i].specifications[j][1],
               param_value |-> products[i].specifications[j][2]]

WithParameters(products) == SelectSeq(products, LAMBDA r : r.specifications # <<>>)

RECURSIVE ResolvedHrefs(_, _)
ResolvedHrefs(base_url, anchors) ==
    IF anchors = <<>> THEN <<>>
    ELSE (IF Head(anchors).has
          THEN <<urljoin(base_url, Head(anchors).href)>>
          ELSE <<>>) \o ResolvedHrefs(base_url, Tail(anchors))

\* C27: every element of the sequence a vendor's link discovery returns is an
\* absolute URL string: an anchor with a relative href is resolved against
\* the vendor's base URL, and an anchor without href contributes no element.
C27_LinksAreAbsoluteUrls ==
    /\ (p_vendor \in LinkVendors /\ p_pc = "done") =>
          /\ \A k \in 1..Len(p_out.links) : StartsWithHttp(p_out.links[k])
          /\ p_out.links = ResolvedHrefs(LinkBase(p_vendor), p_site.anchors)
    /\ (p_vendor = "DahuaCrawler" /\ p_pc = "done") =>
          \A k \in 1..Len(p_out.links) : StartsWithHttp(p_out.links[k])

\* C28: run_crawlers_parallel runs exactly the discovered crawler classes
\* whose names are in class_names, each once and no others; it runs all the
\* discovered classes only when class_names is None.
C28_RunsExactlyTheNamedClasses ==
    c_pc # "called" =>
       /\ c_tasks = IF class_names.given
                    THEN SelectSeq(crawler_classes,
                                   LAMBDA cls : ClassName(cls) \in class_names.value)
                    ELSE crawler_classes
       /\ \A t1, t2 \in 1..Len(c_tasks) : c_tasks[t1] = c_tasks[t2] => t1 = t2

ExtractCalls(trace) ==
    LET hits == SelectSeq(trace, LAMBDA e : e.ev = "extract")
    IN [k \in 1..Len(hits) |-> hits[k].url]

\* C29: in a run() that ends without an exception, every discovered link,
\* counted with multiplicity, is passed to extract_product_details exactly
\* once and ends in exactly one of the collected records or the skipped
\* links, so the collected and the skipped together number the discovered.
C29_EveryLinkCollectedOrSkipped ==
    (r_pc = "done" /\ r_exc = "none") =>
       /\ ExtractCalls(r_trace) = TraceUrls(r_trace, "link", "found")
       /\ skipped_urls = TraceUrls(r_trace, "extract", "None")
       /\ Len(all_products) = Len(TraceUrls(r_trace, "extract", "record"))
       /\ Len(all_products) + Len(skipped_urls)
             = Len(TraceUrls(r_trace, "link", "found"))

TimesVisited(visits, page) == Len(SelectSeq(visits, LAMBDA v : v = page))

\* C30: for a Hikvision listing whose pagination bar shows the pages 1..n
\* between a "previous" and a "next" control, each page 1..n is processed
\* exactly once, so that no product link is extracted twice because of
\* pagination.  Stated of the runs in which every click succeeded and the
\* listing's URL carries the page shown.
C30_EachPageProcessedOnce ==
    (/\ p_vendor = "HikvisionCrawler"
     /\ p_pc = "done"
     /\ p_site.controls
     /\ p_site.pages >= 1
     /\ p_site.tracks
     /\ Len(p_visits) = 1 + p_iters)
    => /\ \A page \in 1..p_site.pages : TimesVisited(p_visits, page) = 1
       /\ Len(p_visits) = p_site.pages

RoundTrips(rec) ==
    rec.specifications # <<>> =>
        /\ x_json.written
        /\ \E k \in 1..Len(x_json.content) : x_json.content[k] = JsonView(rec)

DistinctIds(products) ==
    \A i, j \in 1..Len(products) : i # j => products[i].id # products[j].id

=============================================================================
